---- MODULE Spec2Model ----
(***************************************************************************)
(* Model of the emb_alloc memory pool allocator (src/emb_alloc.c).         *)
(*                                                                         *)
(* The pool's block area is modelled as an array of cells of               *)
(* EMB_ALLOC_ALIGN_AMOUNT bytes: every sentinel, the pair of per-block     *)
(* counters and every A bytes of payload is one cell.  Addresses are byte  *)
(* offsets from EMB_ALLOC_GET_MEMPOOL_FIRST_BLOCK_PTR; NULL lies below     *)
(* every address, as in C.  Request sizes are multiples of A, so every     *)
(* memset/memcpy of the code covers whole cells.                           *)
(***************************************************************************)
EXTENDS Integers, Sequences, FiniteSets, TLC

\* ---------------------------------------------------------------- bounds
\* Largest number of blocks a pool is created with, per size class.
Max32 == 3
Max64 == 1
Max128 == 0
\* The number of 32-byte blocks of the pool of SpecScan.
ScanBlocks == 5
\* The number of 64-byte and of 128-byte blocks of the pool of SpecResidual.
Residual64 == 1
Residual128 == 2
\* Largest number of 32-byte and of 64-byte blocks of the pools of SpecLife.
Life32 == 1
Life64 == 4
\* The number of 32-byte blocks of the pool of SpecThreads.
Thread32 == 2

\* ------------------------------------------------------ program constants
A == 16
EMB_ALLOC_NUM_BLOCK_CATEGORIES == 8
NULL == -1
\* EMB_ALLOC_VALUE_NOT_SET is SIZE_MAX: the all-ones machine word.
EMB_ALLOC_VALUE_NOT_SET == -1
\* The word read from 8 bytes of EMB_ALLOC_INIT_VALUE (0xACAC...AC).
PoisonWord == -2
\* The word read from 8 bytes of a sentinel string.
MarkerWord == -3

\* The comparisons < and <= of two size_t values.  A size_t is held as the
\* integer congruent to it modulo 2^64 that is nearest to 0, so that the
\* code's additions and subtractions are the integer ones and a negative
\* integer stands for a value above 2^63.
ULt(a, b) == IF (a < 0) = (b < 0) THEN a < b ELSE b < 0
ULe(a, b) == a = b \/ ULt(a, b)

EMB_ALLOC_BLOCK_CONTROL_ALIGN_SIZE == 3 * A
EMB_ALLOC_BLOCK_START_CONTROL_ALIGN_SIZE == 2 * A
EMB_ALLOC_BLOCK_TOTAL_ALIGN_SIZE(data_size) == data_size + EMB_ALLOC_BLOCK_CONTROL_ALIGN_SIZE

EmbAllocErrors == {"NoErr", "InconsistentSettings", "ThreadSyncError", "OutputParamError",
                   "InvalidMempool", "NoMemory", "Overflow", "InconsistentBlocks",
                   "PointerParamError"}

CategoryIdx == 0 .. (EMB_ALLOC_NUM_BLOCK_CATEGORIES - 1)

\* EmbAllocGetCategorySettingsInternal: the data size of category idx.
CategoryDataSize(idx) ==
    CASE idx = 0 -> 32
      [] idx = 1 -> 64
      [] idx = 2 -> 128
      [] idx = 3 -> 256
      [] idx = 4 -> 512
      [] idx = 5 -> 1024
      [] idx = 6 -> 2048
      [] idx = 7 -> 4096
      [] OTHER -> 0

\* ------------------------------------------------------------------ cells
\* A cell is A bytes of the pool: t names its content, cnt/dsz are the two
\* machine words of a counters cell.
kEmbAllocBlockStart == [t |-> "H", cnt |-> 0, dsz |-> 0]
kEmbAllocBlockEnd == [t |-> "T", cnt |-> 0, dsz |-> 0]
kEmbAllocMempoolEnd == [t |-> "E", cnt |-> 0, dsz |-> 0]
PoisonCell == [t |-> "P", cnt |-> 0, dsz |-> 0]
ZeroCell == [t |-> "Z", cnt |-> 0, dsz |-> 0]
kEmbAllocMempoolStart == [t |-> "S", cnt |-> 0, dsz |-> 0]
\* Bytes a client stored in its payload.
DataCell == [t |-> "D", cnt |-> 0, dsz |-> 0]

\* The first and the second machine word of a cell, read as size_t.
FirstWord(cell) ==
    CASE cell.t = "C" -> cell.cnt
      [] cell.t = "P" -> PoisonWord
      [] cell.t = "Z" -> 0
      [] OTHER -> MarkerWord

SecondWord(cell) ==
    CASE cell.t = "C" -> cell.dsz
      [] cell.t = "P" -> PoisonWord
      [] cell.t = "Z" -> 0
      [] OTHER -> MarkerWord

\* The cell that holds the two words w1, w2.
WordsCell(w1, w2) ==
    IF w1 = PoisonWord /\ w2 = PoisonWord THEN PoisonCell
    ELSE IF w1 = 0 /\ w2 = 0 THEN ZeroCell
    ELSE [t |-> "C", cnt |-> w1, dsz |-> w2]

CellOf(addr) == addr \div A

\* A read of the cell at byte address addr; outside the region obtained from
\* malloc the read is undefined and yields the cell oob.
ReadCell(mem, addr, oob) ==
    IF CellOf(addr) \in DOMAIN mem THEN mem[CellOf(addr)] ELSE oob

\* A write of one cell; a write outside the region leaves the pool as it is.
WriteCell(mem, addr, cell) ==
    IF CellOf(addr) \in DOMAIN mem THEN [mem EXCEPT ![CellOf(addr)] = cell] ELSE mem

\* memset / memcpy of len bytes of the same cell content starting at addr.
Memset(mem, addr, cell, len) ==
    [i \in DOMAIN mem |->
        IF CellOf(addr) <= i /\ i < CellOf(addr + len) THEN cell ELSE mem[i]]

\* EMB_ALLOC_GET_BLOCK_USE_COUNT_FROM_BLOCK / ..._MEMORY_USE_COUNT_FROM_BLOCK
UseCount(mem, block, oob) == FirstWord(ReadCell(mem, block + A, oob))
MemoryUseCount(mem, block, oob) == SecondWord(ReadCell(mem, block + A, oob))

SetUseCount(mem, block, v, oob) ==
    WriteCell(mem, block + A, WordsCell(v, SecondWord(ReadCell(mem, block + A, oob))))

SetMemoryUseCount(mem, block, v, oob) ==
    WriteCell(mem, block + A, WordsCell(FirstWord(ReadCell(mem, block + A, oob)), v))

\* EMB_ALLOC_GET_PTR_FROM_BLOCK, EMB_ALLOC_GET_BLOCK_FROM_PTR,
\* EMB_ALLOC_GET_END_PADDING_FROM_BLOCK
PtrFromBlock(block) == block + 2 * A
BlockFromPtr(ptr) == ptr - 2 * A
EndPaddingFromBlock(block, size) == block + 2 * A + size

\* EmbAllocCheckBuffer (buffer, size, EMB_ALLOC_INIT_VALUE)
EmbAllocCheckBuffer(mem, buffer, size, oob) ==
    \/ size = 0
    \/ \A i \in CellOf(buffer) .. (CellOf(buffer + size) - 1) :
          ReadCell(mem, i * A, oob) = PoisonCell

\* ------------------------------------------------------------------ state
VARIABLES
    settings,      \* EmbAllocMemPoolSettings stored in the pool
    mem,           \* the cells of the block area, followed by kEmbAllocMempoolEnd
    categories,    \* the 8 EmbAllocBlockCategory entries
    last_error,    \* EmbAllocMempoolAuxData.last_error
    live,          \* the client's view: the runs handed out and not freed yet
    mempool_start, \* the first EMB_ALLOC_ALIGN_AMOUNT bytes at the pool's address
    mutex,         \* EmbAllocMempoolAuxData.thread_sync_mutex: its owner, if any
    pc,            \* the position of every thread inside the call it is making
    frame          \* the local variables of the client and of the running calls

vars == <<settings, mem, categories, last_error, live, mempool_start, mutex, pc, frame>>

\* What the calls of a single-threaded client on a pool without a mutex leave
\* alone.
unused == <<mempool_start, mutex, pc, frame>>

\* The pool as the internal functions see it.
Pool(m, c, e) == [mem |-> m, cat |-> c, err |-> e]

\* EmbAllocSetErrorInternal: records the error code (message, callback and dump
\* file are outside the model).
EmbAllocSetErrorInternal(P, error) == [P EXCEPT !.err = error]

\* A ClearMempoolErrorInternal that leaves last_error alone.
KeepMempoolErrorInternal(P) == P

\* ClearMempoolErrorInternal
ClearMempoolErrorInternal(P) == [P EXCEPT !.err = "NoErr"]

\* ------------------------------------------------------------- creation
\* EmbAllocGetCategorySettingsInternal: the number of blocks of category idx.
CategoryNumBlocks(s, idx) == s.num_blocks[idx]

\* The start address EmbAllocInitializeBlockCategoriesInternal carries over to
\* category idx: the end of the blocks of the categories before it.
RECURSIVE CurrentStartAddress(_, _)
CurrentStartAddress(s, idx) ==
    IF idx = 0 THEN 0
    ELSE CurrentStartAddress(s, idx - 1) +
         CategoryNumBlocks(s, idx - 1) *
             EMB_ALLOC_BLOCK_TOTAL_ALIGN_SIZE(CategoryDataSize(idx - 1))

\* An EmbAllocInitializeBlockCategoriesInternal that starts every category at
\* the first block, without carrying current_start_address over.
InitializeBlockCategoriesAtZero(s) ==
    [i \in CategoryIdx |->
        LET total == CategoryNumBlocks(s, i)
            last == (total - 1) * EMB_ALLOC_BLOCK_TOTAL_ALIGN_SIZE(CategoryDataSize(i))
        IN  [ block_data_size |-> CategoryDataSize(i),
              total_blocks |-> total,
              occupied_blocks |-> 0,
              start_address |-> IF total > 0 THEN 0 ELSE NULL,
              first_free_address |-> IF total > 0 THEN 0 ELSE NULL,
              last_address |-> IF total > 0 THEN last ELSE NULL,
              last_free_address |-> IF total > 0 THEN last ELSE NULL ] ]

\* EmbAllocInitializeBlockCategoriesInternal
EmbAllocInitializeBlockCategoriesInternal(s) ==
    [i \in CategoryIdx |->
        LET total == CategoryNumBlocks(s, i)
            start == CurrentStartAddress(s, i)
            last == start + (total - 1) * EMB_ALLOC_BLOCK_TOTAL_ALIGN_SIZE(CategoryDataSize(i))
        IN  [ block_data_size |-> CategoryDataSize(i),
              total_blocks |-> total,
              occupied_blocks |-> 0,
              start_address |-> IF total > 0 THEN start ELSE NULL,
              first_free_address |-> IF total > 0 THEN start ELSE NULL,
              last_address |-> IF total > 0 THEN last ELSE NULL,
              last_free_address |-> IF total > 0 THEN last ELSE NULL ] ]

\* The size of the block area in bytes (EmbAllocGetMemoryRequirementsInternal
\* without the control data in front of the first block).
BlockAreaSize(s) == CurrentStartAddress(s, EMB_ALLOC_NUM_BLOCK_CATEGORIES)

\* EmbAllocInitializeInternal + EmbAllocInitializeDataBlocksInternal: everything
\* is filled with EMB_ALLOC_INIT_VALUE, then every block gets its two sentinels
\* and unset counters; the cell after the block area is kEmbAllocMempoolEnd.
EmbAllocInitializeDataBlocksInternal(s) ==
    LET cat == EmbAllocInitializeBlockCategoriesInternal(s)
        IsAt(i, off) ==
            \E c \in CategoryIdx :
                /\ cat[c].total_blocks > 0
                /\ cat[c].start_address <= i * A
                /\ i * A < cat[c].last_address +
                           EMB_ALLOC_BLOCK_TOTAL_ALIGN_SIZE(cat[c].block_data_size)
                /\ (i * A - cat[c].start_address) %
                      EMB_ALLOC_BLOCK_TOTAL_ALIGN_SIZE(cat[c].block_data_size) =
                   (IF off >= 0 THEN off ELSE 2 * A + cat[c].block_data_size)
    IN  [i \in 0 .. CellOf(BlockAreaSize(s)) |->
            IF i = CellOf(BlockAreaSize(s)) THEN kEmbAllocMempoolEnd
            ELSE IF IsAt(i, 0) THEN kEmbAllocBlockStart
            ELSE IF IsAt(i, A) THEN WordsCell(EMB_ALLOC_VALUE_NOT_SET, EMB_ALLOC_VALUE_NOT_SET)
            ELSE IF IsAt(i, -1) THEN kEmbAllocBlockEnd
            ELSE PoisonCell]

\* EmbAllocSanitizeSettingsInternal: total_size becomes the sum of the payload
\* sizes of all blocks; the result tells whether the caller's value was that sum.
SanitizedTotalSize(s) ==
    LET RECURSIVE Sum(_)
        Sum(i) == IF i = EMB_ALLOC_NUM_BLOCK_CATEGORIES THEN 0
                  ELSE CategoryNumBlocks(s, i) * CategoryDataSize(i) + Sum(i + 1)
    IN  Sum(0)

\* An EmbAllocSanitizeSettingsInternal that keeps the caller's total_size.
SanitizeKeepsTotalSize(s) ==
    [settings |-> s, consistent |-> (SanitizedTotalSize(s) = s.total_size)]

EmbAllocSanitizeSettingsInternal(s) ==
    [settings |-> [s EXCEPT !.total_size = SanitizedTotalSize(s)],
     consistent |-> (SanitizedTotalSize(s) = s.total_size)]

\* EmbAllocCreate when malloc succeeds: the settings, block area, categories
\* and last error of the pool it returns.
EmbAllocCreate(s) ==
    LET sane == EmbAllocSanitizeSettingsInternal(s)
    IN  [settings |-> sane.settings,
         mem |-> EmbAllocInitializeDataBlocksInternal(sane.settings),
         cat |-> EmbAllocInitializeBlockCategoriesInternal(sane.settings),
         err |-> IF sane.consistent THEN "NoErr" ELSE "InconsistentSettings"]

\* ------------------------------------------------------------ allocation
\* An EMB_ALLOC_CAN_ALLOC_IN_A_BLOCK without the test of the size.
CanAllocInAnyBlock(category, size) ==
    ULt(category.occupied_blocks, category.total_blocks)

\* EMB_ALLOC_CAN_ALLOC_IN_A_BLOCK
EMB_ALLOC_CAN_ALLOC_IN_A_BLOCK(category, size) ==
    category.block_data_size >= size /\ ULt(category.occupied_blocks, category.total_blocks)

\* The category entry forced to the saturated state by the safety-net branches.
Saturated(category) ==
    [category EXCEPT !.occupied_blocks = category.total_blocks,
                     !.first_free_address = NULL,
                     !.last_free_address = NULL]

\* One iteration i of the loop of EmbAllocMergeFreeBlocksInternal and the
\* iterations after it.
RECURSIVE MergeFreeBlocksLoop(_, _, _, _, _, _, _, _)
MergeFreeBlocksLoop(P, c, block, blocks_count, keep_start, keep_end, i, oob) ==
    IF i >= blocks_count THEN P
    ELSE
    LET d == P.cat[c].block_data_size
        current_block == block + i * EMB_ALLOC_BLOCK_TOTAL_ALIGN_SIZE(d)
        block_end_padding == EndPaddingFromBlock(current_block, d)
        data_pointer == PtrFromBlock(current_block)
        \* the five checks of the iteration; each one that fails records Overflow
        bad_start == ReadCell(P.mem, current_block, oob) # kEmbAllocBlockStart
        bad_end == ReadCell(P.mem, block_end_padding, oob) # kEmbAllocBlockEnd
        bad_count == UseCount(P.mem, current_block, oob) # EMB_ALLOC_VALUE_NOT_SET
        bad_size == MemoryUseCount(P.mem, current_block, oob) # EMB_ALLOC_VALUE_NOT_SET
        bad_data == settings.full_overflow_checks /\
                    ~EmbAllocCheckBuffer(P.mem, data_pointer, d, oob)
        P5 == IF bad_start \/ bad_end \/ bad_count \/ bad_size \/ bad_data
              THEN EmbAllocSetErrorInternal(P, "Overflow") ELSE P
        m5 == IF bad_data THEN Memset(P.mem, data_pointer, PoisonCell, d) ELSE P.mem
        m6 == IF ~keep_start \/ i # 0
              THEN Memset(m5, current_block, PoisonCell,
                          EMB_ALLOC_BLOCK_START_CONTROL_ALIGN_SIZE)
              ELSE WriteCell(m5, current_block, kEmbAllocBlockStart)
        m7 == WriteCell(m6, block_end_padding,
                        IF ~keep_end \/ blocks_count - 1 # i
                        THEN PoisonCell ELSE kEmbAllocBlockEnd)
    IN  MergeFreeBlocksLoop([P5 EXCEPT !.mem = m7], c, block, blocks_count,
                            keep_start, keep_end, i + 1, oob)

\* EmbAllocMergeFreeBlocksInternal
EmbAllocMergeFreeBlocksInternal(P, c, block, blocks_count, keep_start, keep_end, oob) ==
    MergeFreeBlocksLoop(P, c, block, blocks_count, keep_start, keep_end, 0, oob)

\* The forward scan both allocation functions use to advance first_free_address:
\* while (block <= last_free_address) { block += stride; if unset: found }.
\* NULL when the loop ends without finding a block.
RECURSIVE NextFreeBlock(_, _, _, _, _)
NextFreeBlock(m, block, last_free_address, stride, oob) ==
    IF block <= last_free_address
    THEN IF UseCount(m, block + stride, oob) = EMB_ALLOC_VALUE_NOT_SET
         THEN block + stride
         ELSE NextFreeBlock(m, block + stride, last_free_address, stride, oob)
    ELSE NULL

\* The cursor update at the end of EmbAllocMallocOneBlockInternal (1005-1028).
OneBlockCursors(category, m, free_block, oob) ==
    IF ULt(category.occupied_blocks, category.total_blocks)
    THEN LET next == NextFreeBlock(m, free_block, category.last_free_address,
                         EMB_ALLOC_BLOCK_TOTAL_ALIGN_SIZE(category.block_data_size), oob)
         IN  IF next = NULL
             THEN [category EXCEPT !.first_free_address = NULL, !.last_free_address = NULL]
             ELSE [category EXCEPT !.first_free_address = next]
    ELSE Saturated(category)

\* EmbAllocMallocOneBlockInternal: the pool after the call, the returned pointer
\* and the category and run length of the run handed out.
EmbAllocMallocOneBlockInternal(P, c, size, oob) ==
    LET category == P.cat[c]
        free_block == category.first_free_address
        return_value == PtrFromBlock(free_block)
    IN  IF ULe(category.total_blocks, category.occupied_blocks)
        THEN [P |-> EmbAllocSetErrorInternal(P, "InconsistentBlocks"),
              ret |-> NULL, c |-> c, k |-> 0]
        ELSE IF category.first_free_address = NULL \/ category.last_free_address = NULL
        THEN [P |-> [EmbAllocSetErrorInternal(P, "InconsistentBlocks")
                        EXCEPT !.cat[c] = Saturated(category)],
              ret |-> NULL, c |-> c, k |-> 0]
        ELSE
        LET P1 == EmbAllocMergeFreeBlocksInternal(P, c, free_block, 1, TRUE, TRUE, oob)
            m2 == IF settings.init_allocated_memory
                  THEN Memset(P1.mem, return_value, ZeroCell, size) ELSE P1.mem
            m3 == SetMemoryUseCount(SetUseCount(m2, free_block, 1, oob), free_block, size, oob)
            cat1 == [category EXCEPT !.occupied_blocks = category.occupied_blocks + 1]
        IN  [P |-> [P1 EXCEPT !.mem = m3,
                              !.cat[c] = OneBlockCursors(cat1, m3, free_block, oob)],
             ret |-> return_value, c |-> c, k |-> 1]

\* A count of blocks that drops the block the remainder of the division needs.
BlocksCountRoundedDown(size, d) ==
    EMB_ALLOC_BLOCK_TOTAL_ALIGN_SIZE(size) \div EMB_ALLOC_BLOCK_TOTAL_ALIGN_SIZE(d)

\* The number of blocks of data size d a run of size bytes needs (1063-1067).
BlocksCount(size, d) ==
    (EMB_ALLOC_BLOCK_TOTAL_ALIGN_SIZE(size) \div EMB_ALLOC_BLOCK_TOTAL_ALIGN_SIZE(d)) +
    (IF EMB_ALLOC_BLOCK_TOTAL_ALIGN_SIZE(size) % EMB_ALLOC_BLOCK_TOTAL_ALIGN_SIZE(d) # 0
     THEN 1 ELSE 0)

\* The short-circuit test the scan makes on a block in use (1089-1091).
ScanGivesUp(category, verified_block, blocks_count) ==
    ((category.last_free_address - verified_block) \div
        EMB_ALLOC_BLOCK_TOTAL_ALIGN_SIZE(category.block_data_size)) > blocks_count

\* The while loop of EmbAllocCanAllocInMultipleBlocksInternal (1074-1102).
RECURSIVE CanAllocScan(_, _, _, _, _, _, _)
CanAllocScan(m, category, verified_block, counter, block, blocks_count, oob) ==
    IF verified_block <= category.last_free_address
    THEN IF UseCount(m, verified_block, oob) = EMB_ALLOC_VALUE_NOT_SET
         THEN LET b == IF block = NULL THEN verified_block ELSE block
              IN  IF counter + 1 >= blocks_count
                  THEN [ok |-> TRUE, block |-> b]
                  ELSE CanAllocScan(m, category,
                           verified_block +
                               EMB_ALLOC_BLOCK_TOTAL_ALIGN_SIZE(category.block_data_size),
                           counter + 1, b, blocks_count, oob)
         ELSE IF ScanGivesUp(category, verified_block, blocks_count)
              THEN [ok |-> FALSE, block |-> NULL]
              ELSE CanAllocScan(m, category,
                       verified_block +
                           EMB_ALLOC_BLOCK_TOTAL_ALIGN_SIZE(category.block_data_size),
                       0, NULL, blocks_count, oob)
    ELSE [ok |-> FALSE, block |-> NULL]

\* EmbAllocCanAllocInMultipleBlocksInternal: the pool after the call, the
\* result and the two output parameters.
EmbAllocCanAllocInMultipleBlocksInternal(P, c, size, oob) ==
    LET category == P.cat[c]
        blocks_count == BlocksCount(size, category.block_data_size)
    IN  IF ULe(category.total_blocks, category.occupied_blocks)
        THEN [P |-> EmbAllocSetErrorInternal(P, "InconsistentBlocks"),
              ok |-> FALSE, block |-> NULL, blocks_count |-> 0]
        ELSE IF category.first_free_address = NULL \/ category.last_free_address = NULL
        THEN [P |-> [EmbAllocSetErrorInternal(P, "InconsistentBlocks")
                        EXCEPT !.cat[c] = Saturated(category)],
              ok |-> FALSE, block |-> NULL, blocks_count |-> 0]
        ELSE IF ULt(category.total_blocks, category.occupied_blocks + blocks_count)
        THEN [P |-> P, ok |-> FALSE, block |-> NULL, blocks_count |-> blocks_count]
        ELSE LET r == CanAllocScan(P.mem, category, category.first_free_address, 0, NULL,
                                   blocks_count, oob)
             IN  [P |-> P, ok |-> r.ok, block |-> r.block, blocks_count |-> blocks_count]

\* The cursor update at the end of EmbAllocMallocMultiBlocksInternal (1151-1179).
MultiBlocksCursors(category, m, block, blocks_count, oob) ==
    IF ULt(category.occupied_blocks, category.total_blocks)
    THEN IF category.first_free_address = block
         THEN LET next == NextFreeBlock(m,
                              block + (blocks_count - 1) *
                                  EMB_ALLOC_BLOCK_TOTAL_ALIGN_SIZE(category.block_data_size),
                              category.last_free_address,
                              EMB_ALLOC_BLOCK_TOTAL_ALIGN_SIZE(category.block_data_size), oob)
              IN  IF next = NULL
                  THEN [category EXCEPT !.first_free_address = NULL,
                                        !.last_free_address = NULL]
                  ELSE [category EXCEPT !.first_free_address = next]
         ELSE category
    ELSE Saturated(category)

\* EmbAllocMallocMultiBlocksInternal
EmbAllocMallocMultiBlocksInternal(P, c, size, block, blocks_count, oob) ==
    LET category == P.cat[c]
        return_value == PtrFromBlock(block)
    IN  IF ULe(category.total_blocks, category.occupied_blocks)
        THEN [P |-> EmbAllocSetErrorInternal(P, "InconsistentBlocks"),
              ret |-> NULL, c |-> c, k |-> 0]
        ELSE IF block = NULL \/ category.first_free_address = NULL \/
                category.last_free_address = NULL
        THEN [P |-> [EmbAllocSetErrorInternal(P, "InconsistentBlocks")
                        EXCEPT !.cat[c] = Saturated(category)],
              ret |-> NULL, c |-> c, k |-> 0]
        ELSE
        LET P1 == EmbAllocMergeFreeBlocksInternal(P, c, block, blocks_count, TRUE, TRUE, oob)
            m2 == IF settings.init_allocated_memory
                  THEN Memset(P1.mem, return_value, ZeroCell, size) ELSE P1.mem
            m3 == SetMemoryUseCount(SetUseCount(m2, block, blocks_count, oob),
                                    block, size, oob)
            cat1 == [category EXCEPT
                        !.occupied_blocks = category.occupied_blocks + blocks_count]
        IN  [P |-> [P1 EXCEPT !.mem = m3,
                              !.cat[c] = MultiBlocksCursors(cat1, m3, block, blocks_count, oob)],
             ret |-> return_value, c |-> c, k |-> blocks_count]

\* The descending loop of EmbAllocMallocInternal (783-804) from category i down
\* to 1: either the call returns from inside the loop (done, with result r), or
\* the loop ends with the two candidate indexes and the multi-block outputs.
RECURSIVE MallocScanCategories(_, _, _, _, _)

\* The branch of the loop for a category i too small for one block (795-802),
\* given the result can of EmbAllocCanAllocInMultipleBlocksInternal: the loop
\* breaks when the category can hold the run and goes on otherwise.
MallocScanMultiBlocks(can, size, i, large_size_block_idx, oob) ==
    IF can.ok
    THEN [done |-> FALSE, P |-> can.P, i |-> i,
          large_size_block_idx |-> large_size_block_idx,
          small_size_block_idx |-> i,
          multi_block_alloc_address |-> can.block,
          multi_block_alloc_count |-> can.blocks_count]
    ELSE MallocScanCategories(can.P, size, i - 1, large_size_block_idx, oob)

MallocScanCategories(P, size, i, large_size_block_idx, oob) ==
    IF i <= 0
    THEN [done |-> FALSE, P |-> P, i |-> i,
          large_size_block_idx |-> large_size_block_idx,
          small_size_block_idx |-> EMB_ALLOC_NUM_BLOCK_CATEGORIES,
          multi_block_alloc_address |-> NULL, multi_block_alloc_count |-> 0]
    ELSE IF ULt(P.cat[i].occupied_blocks, P.cat[i].total_blocks)
    THEN IF EMB_ALLOC_CAN_ALLOC_IN_A_BLOCK(P.cat[i], size)
         THEN IF P.cat[i - 1].block_data_size < size
              THEN [done |-> TRUE, r |-> EmbAllocMallocOneBlockInternal(P, i, size, oob)]
              ELSE MallocScanCategories(P, size, i - 1, i, oob)
         ELSE MallocScanMultiBlocks(
                  EmbAllocCanAllocInMultipleBlocksInternal(P, i, size, oob),
                  size, i, large_size_block_idx, oob)
    ELSE MallocScanCategories(P, size, i - 1, large_size_block_idx, oob)

\* The comparison of the free bytes left after either allocation (856-863).
LargeLeavesMore(cat, large_size_block_idx, small_size_block_idx, multi_block_alloc_count) ==
    ULt(cat[small_size_block_idx].block_data_size *
            (cat[small_size_block_idx].total_blocks -
             cat[small_size_block_idx].occupied_blocks - multi_block_alloc_count),
        cat[large_size_block_idx].block_data_size *
            (cat[large_size_block_idx].total_blocks -
             cat[large_size_block_idx].occupied_blocks - 1))

\* The choice between the two candidates at the end of EmbAllocMallocInternal
\* (815-882).
MallocChoose(P, large_size_block_idx, small_size_block_idx, multi_block_alloc_address, multi_block_alloc_count, size, oob) ==
    IF /\ large_size_block_idx # EMB_ALLOC_NUM_BLOCK_CATEGORIES
       /\ small_size_block_idx # EMB_ALLOC_NUM_BLOCK_CATEGORIES
    THEN IF LargeLeavesMore(P.cat, large_size_block_idx, small_size_block_idx,
                            multi_block_alloc_count)
         THEN EmbAllocMallocOneBlockInternal(P, large_size_block_idx, size, oob)
         ELSE EmbAllocMallocMultiBlocksInternal(P, small_size_block_idx, size,
                  multi_block_alloc_address, multi_block_alloc_count, oob)
    ELSE IF large_size_block_idx # EMB_ALLOC_NUM_BLOCK_CATEGORIES
    THEN EmbAllocMallocOneBlockInternal(P, large_size_block_idx, size, oob)
    ELSE IF small_size_block_idx # EMB_ALLOC_NUM_BLOCK_CATEGORIES
    THEN EmbAllocMallocMultiBlocksInternal(P, small_size_block_idx, size,
             multi_block_alloc_address, multi_block_alloc_count, oob)
    ELSE [P |-> EmbAllocSetErrorInternal(P, "NoMemory"), ret |-> NULL,
          c |-> EMB_ALLOC_NUM_BLOCK_CATEGORIES, k |-> 0]

\* An attempt on category 0 that records category 1 as the small candidate.
MallocCategoryZeroRecordsOne(s, can0, size, oob) ==
    LET try0 == s.small_size_block_idx = EMB_ALLOC_NUM_BLOCK_CATEGORIES /\
                ULt(s.P.cat[0].occupied_blocks, s.P.cat[0].total_blocks)
    IN  MallocChoose(IF try0 THEN can0.P ELSE s.P,
                     s.large_size_block_idx,
                     IF try0 /\ can0.ok THEN 1 ELSE s.small_size_block_idx,
                     IF try0 THEN can0.block ELSE s.multi_block_alloc_address,
                     IF try0 THEN can0.blocks_count ELSE s.multi_block_alloc_count,
                     size, oob)

\* The attempt on category 0 after the loop (806-813), given the state s the
\* loop ended in and the result can0 of
\* EmbAllocCanAllocInMultipleBlocksInternal on category 0, which the code calls
\* only when no smaller candidate was found and category 0 is not full.  On
\* success the code assigns the loop counter i to small_size_block_idx.
MallocCategoryZero(s, can0, size, oob) ==
    LET try0 == s.small_size_block_idx = EMB_ALLOC_NUM_BLOCK_CATEGORIES /\
                ULt(s.P.cat[0].occupied_blocks, s.P.cat[0].total_blocks)
    IN  MallocChoose(IF try0 THEN can0.P ELSE s.P,
                     s.large_size_block_idx,
                     IF try0 /\ can0.ok THEN s.i ELSE s.small_size_block_idx,
                     IF try0 THEN can0.block ELSE s.multi_block_alloc_address,
                     IF try0 THEN can0.blocks_count ELSE s.multi_block_alloc_count,
                     size, oob)

\* EmbAllocMallocInternal after its loop, which ended in s.
MallocAfterLoop(s, size, oob) ==
    IF s.done THEN s.r
    ELSE MallocCategoryZero(s,
             EmbAllocCanAllocInMultipleBlocksInternal(s.P, 0, size, oob), size, oob)

\* EmbAllocMallocInternal
EmbAllocMallocInternal(P, size, oob) ==
    IF EMB_ALLOC_CAN_ALLOC_IN_A_BLOCK(P.cat[0], size)
    THEN EmbAllocMallocOneBlockInternal(P, 0, size, oob)
    ELSE MallocAfterLoop(
             MallocScanCategories(P, size, EMB_ALLOC_NUM_BLOCK_CATEGORIES - 1,
                                  EMB_ALLOC_NUM_BLOCK_CATEGORIES, oob),
             size, oob)

\* EmbAllocMalloc on a valid pool without a mutex.
EmbAllocMalloc(P, size, oob) ==
    LET P0 == ClearMempoolErrorInternal(P)
    IN  IF size # 0 THEN EmbAllocMallocInternal(P0, size, oob)
        ELSE [P |-> P0, ret |-> NULL, c |-> EMB_ALLOC_NUM_BLOCK_CATEGORIES, k |-> 0]

\* ------------------------------------------------------------------ free
\* EMB_ALLOC_PTR_IS_BLOCK
EMB_ALLOC_PTR_IS_BLOCK(m, pointer, oob) ==
    ReadCell(m, BlockFromPtr(pointer), oob) = kEmbAllocBlockStart

\* The size of the payload of a run of used_block_count blocks (1298-1300,
\* 1348-1350, 1503-1505).
RunDataSize(category, used_block_count) ==
    category.block_data_size +
    (used_block_count - 1) * EMB_ALLOC_BLOCK_TOTAL_ALIGN_SIZE(category.block_data_size)

\* The first category whose [start_address, last_address] holds block, or
\* EMB_ALLOC_NUM_BLOCK_CATEGORIES when there is none (the loop at 1295-1312).
CategoryOfBlock(cat, block) ==
    IF \E i \in CategoryIdx : cat[i].start_address <= block /\ cat[i].last_address >= block
    THEN CHOOSE i \in CategoryIdx :
            /\ cat[i].start_address <= block /\ cat[i].last_address >= block
            /\ \A j \in CategoryIdx :
                  (cat[j].start_address <= block /\ cat[j].last_address >= block) => i <= j
    ELSE EMB_ALLOC_NUM_BLOCK_CATEGORIES

\* EmbAllocGetCategoryForPtr: the pool after the call and the index of the
\* category found (EMB_ALLOC_NUM_BLOCK_CATEGORIES for NULL).
EmbAllocGetCategoryForPtr(P, ptr, oob) ==
    LET block == BlockFromPtr(ptr)
        P1 == IF ReadCell(P.mem, block, oob) # kEmbAllocBlockStart
              THEN [EmbAllocSetErrorInternal(P, "Overflow")
                       EXCEPT !.mem = WriteCell(P.mem, block, kEmbAllocBlockStart)]
              ELSE P
        c == CategoryOfBlock(P1.cat, block)
    IN  IF UseCount(P1.mem, block, oob) = EMB_ALLOC_VALUE_NOT_SET
        THEN [P |-> [EmbAllocSetErrorInternal(P1, "Overflow") EXCEPT
                        !.mem = SetMemoryUseCount(P1.mem, block, EMB_ALLOC_VALUE_NOT_SET, oob)],
              c |-> EMB_ALLOC_NUM_BLOCK_CATEGORIES]
        ELSE IF MemoryUseCount(P1.mem, block, oob) = EMB_ALLOC_VALUE_NOT_SET
        THEN [P |-> [EmbAllocSetErrorInternal(P1, "Overflow") EXCEPT
                        !.mem = SetUseCount(P1.mem, block, EMB_ALLOC_VALUE_NOT_SET, oob)],
              c |-> EMB_ALLOC_NUM_BLOCK_CATEGORIES]
        ELSE IF c = EMB_ALLOC_NUM_BLOCK_CATEGORIES
        THEN [P |-> P1, c |-> c]
        ELSE LET block_end_padding ==
                     EndPaddingFromBlock(block,
                         RunDataSize(P1.cat[c], UseCount(P1.mem, block, oob)))
             IN  IF ReadCell(P1.mem, block_end_padding, oob) # kEmbAllocBlockEnd
                 THEN [P |-> [EmbAllocSetErrorInternal(P1, "Overflow") EXCEPT
                                 !.mem = WriteCell(P1.mem, block_end_padding,
                                                   kEmbAllocBlockEnd)],
                       c |-> c]
                 ELSE [P |-> P1, c |-> c]

\* The loop of EmbAllocFreeBlockInternal that restores the control data of
\* every block of the run (1368-1377).
RECURSIVE RestoreBlocks(_, _, _, _, _)
RestoreBlocks(m, d, block, used_block_count, i) ==
    IF i >= used_block_count THEN m
    ELSE LET freed_block == block + i * EMB_ALLOC_BLOCK_TOTAL_ALIGN_SIZE(d)
             m1 == WriteCell(m, freed_block, kEmbAllocBlockStart)
             m2 == WriteCell(m1, EndPaddingFromBlock(freed_block, d), kEmbAllocBlockEnd)
             m3 == WriteCell(m2, freed_block + A,
                             WordsCell(EMB_ALLOC_VALUE_NOT_SET, EMB_ALLOC_VALUE_NOT_SET))
         IN  RestoreBlocks(m3, d, block, used_block_count, i + 1)

\* The relaxation of the two free cursors at the end of
\* EmbAllocFreeBlockInternal (1381-1389).
FreeCursors(category, block) ==
    LET c1 == IF category.first_free_address = NULL \/ category.first_free_address > block
              THEN [category EXCEPT !.first_free_address = block] ELSE category
    IN  IF c1.last_free_address = NULL \/ c1.last_free_address < block
        THEN [c1 EXCEPT !.last_free_address = block] ELSE c1

\* EmbAllocFreeBlockInternal
EmbAllocFreeBlockInternal(P, c, ptr, oob) ==
    LET category == P.cat[c]
        block == BlockFromPtr(ptr)
        used_block_count == UseCount(P.mem, block, oob)
        data_size == MemoryUseCount(P.mem, block, oob)
        block_data_size == RunDataSize(category, used_block_count)
        P1 == IF settings.full_overflow_checks /\
                 ~EmbAllocCheckBuffer(P.mem, ptr + data_size, block_data_size - data_size, oob)
              THEN EmbAllocSetErrorInternal(P, "Overflow") ELSE P
        m2 == Memset(P1.mem, ptr, PoisonCell, block_data_size)
        m3 == RestoreBlocks(m2, category.block_data_size, block, used_block_count, 0)
        cat1 == [category EXCEPT
                    !.occupied_blocks = category.occupied_blocks - used_block_count]
    IN  [P1 EXCEPT !.mem = m3, !.cat[c] = FreeCursors(cat1, block)]

\* EmbAllocFreeInternal
\* g is the result of the EmbAllocGetCategoryForPtr call at 1325.
FreeInCategory(g, ptr, oob) ==
    IF g.c # EMB_ALLOC_NUM_BLOCK_CATEGORIES
    THEN EmbAllocFreeBlockInternal(g.P, g.c, ptr, oob)
    ELSE EmbAllocSetErrorInternal(g.P, "PointerParamError")

EmbAllocFreeInternal(P, ptr, oob) ==
    FreeInCategory(EmbAllocGetCategoryForPtr(P, ptr, oob), ptr, oob)

\* EmbAllocFree without the EMB_ALLOC_PTR_IS_BLOCK test of 1423.
EmbAllocFreeUnchecked(P, ptr, oob) ==
    LET P0 == ClearMempoolErrorInternal(P)
    IN  IF ptr # NULL THEN EmbAllocFreeInternal(P0, ptr, oob) ELSE P0

\* What EmbAllocFree does between locking and unlocking the mutex (1423-1432).
FreeCritical(P, ptr, oob) ==
    IF EMB_ALLOC_PTR_IS_BLOCK(P.mem, ptr, oob)
    THEN EmbAllocFreeInternal(P, ptr, oob)
    ELSE EmbAllocSetErrorInternal(P, "PointerParamError")

\* EmbAllocFree on a valid pool without a mutex.
EmbAllocFree(P, ptr, oob) ==
    LET P0 == ClearMempoolErrorInternal(P)
    IN  IF ptr # NULL THEN FreeCritical(P0, ptr, oob) ELSE P0

\* --------------------------------------------------------------- realloc
\* The number of extra blocks an extension to size bytes needs (1545-1548).
RequiredExtraBlocks(size, block_data_size, d) ==
    ((size - block_data_size) \div EMB_ALLOC_BLOCK_TOTAL_ALIGN_SIZE(d)) +
    (IF (size - block_data_size) % EMB_ALLOC_BLOCK_TOTAL_ALIGN_SIZE(d) # 0 THEN 1 ELSE 0)

\* The loop at 1562-1572: the required_extra_blocks blocks after the run all
\* read as unset.
CanReallocContinously(m, category, block, used_block_count, required_extra_blocks, oob) ==
    \A i \in 0 .. (required_extra_blocks - 1) :
        UseCount(m, block + (used_block_count + i) *
                        EMB_ALLOC_BLOCK_TOTAL_ALIGN_SIZE(category.block_data_size), oob)
            = EMB_ALLOC_VALUE_NOT_SET

\* memcpy (dst, src, len) inside the pool.
Memcpy(m, dst, src, len, oob) ==
    [i \in DOMAIN m |->
        IF CellOf(dst) <= i /\ i < CellOf(dst + len)
        THEN ReadCell(m, (CellOf(src) + (i - CellOf(dst))) * A, oob)
        ELSE m[i]]

\* The in-place extension of EmbAllocReallocBlockInternal (1574-1605).
ReallocExtend(P, c, ptr, size, required_extra_blocks, oob) ==
    LET category == P.cat[c]
        block == BlockFromPtr(ptr)
        used_block_count == UseCount(P.mem, block, oob)
        data_size == MemoryUseCount(P.mem, block, oob)
        block_data_size == RunDataSize(category, used_block_count)
        block_end_padding == EndPaddingFromBlock(block, block_data_size)
        P1 == EmbAllocMergeFreeBlocksInternal(P, c,
                  block + used_block_count *
                      EMB_ALLOC_BLOCK_TOTAL_ALIGN_SIZE(category.block_data_size),
                  required_extra_blocks, FALSE, TRUE, oob)
        m2 == WriteCell(P1.mem, block_end_padding, PoisonCell)
        m3 == IF settings.init_allocated_memory
              THEN Memset(m2, ptr + data_size, ZeroCell, size - data_size) ELSE m2
        m4 == SetUseCount(m3, block,
                          UseCount(m3, block, oob) + required_extra_blocks, oob)
        m5 == SetMemoryUseCount(m4, block, size, oob)
        cat1 == [category EXCEPT
                    !.occupied_blocks = category.occupied_blocks + required_extra_blocks]
        cat2 == IF ULe(cat1.total_blocks, cat1.occupied_blocks) THEN Saturated(cat1) ELSE cat1
    IN  [P |-> [P1 EXCEPT !.mem = m5, !.cat[c] = cat2],
         ret |-> ptr, c |-> c, k |-> UseCount(m5, block, oob), freed |-> FALSE]

\* The relocation of EmbAllocReallocBlockInternal (1612-1620): malloc, copy,
\* free the original whatever malloc returned.
\* r is the result of the EmbAllocMallocInternal call at 1612.
ReallocCopyAndFree(r, c, ptr, oob) ==
    LET data_size == MemoryUseCount(r.P.mem, BlockFromPtr(ptr), oob)
        P1 == IF r.ret # NULL
              THEN [r.P EXCEPT !.mem = Memcpy(r.P.mem, r.ret, ptr, data_size, oob)]
              ELSE r.P
    IN  [P |-> EmbAllocFreeBlockInternal(P1, c, ptr, oob),
         ret |-> r.ret, c |-> r.c, k |-> r.k, freed |-> TRUE]

ReallocRelocate(P, c, ptr, size, oob) ==
    ReallocCopyAndFree(EmbAllocMallocInternal(P, size, oob), c, ptr, oob)

\* The branch size < *data_size of EmbAllocReallocBlockInternal without the
\* assignment *data_size = size (1529).
ReallocShrinkNoStore(m, ptr, size, data_size, oob) ==
    Memset(m, ptr + size, PoisonCell, data_size - size)

\* The branch size < *data_size of EmbAllocReallocBlockInternal (1521-1530):
\* the bytes given up are poisoned and data_size is stored; the memory after.
ReallocShrink(m, ptr, size, data_size, oob) ==
    SetMemoryUseCount(Memset(m, ptr + size, PoisonCell, data_size - size),
                      BlockFromPtr(ptr), size, oob)

\* The branch size < block_data_size of EmbAllocReallocBlockInternal
\* (1532-1542): the new bytes are zeroed when the pool initialises memory and
\* data_size is stored; the memory after.
ReallocGrowInBlock(m, ptr, size, data_size, oob) ==
    SetMemoryUseCount(IF settings.init_allocated_memory
                      THEN Memset(m, ptr + data_size, ZeroCell, size - data_size)
                      ELSE m,
                      BlockFromPtr(ptr), size, oob)

\* EmbAllocReallocBlockInternal
EmbAllocReallocBlockInternal(P, c, ptr, size, oob) ==
    LET category == P.cat[c]
        block == BlockFromPtr(ptr)
        used_block_count == UseCount(P.mem, block, oob)
        data_size == MemoryUseCount(P.mem, block, oob)
        block_data_size == RunDataSize(category, used_block_count)
        P1 == IF settings.full_overflow_checks /\
                 ~EmbAllocCheckBuffer(P.mem, ptr + data_size, block_data_size - data_size, oob)
              THEN [EmbAllocSetErrorInternal(P, "Overflow") EXCEPT
                       !.mem = Memset(P.mem, ptr + data_size, PoisonCell,
                                      block_data_size - data_size)]
              ELSE P
        same == [P |-> P1, ret |-> ptr, c |-> c, k |-> used_block_count, freed |-> FALSE]
        required_extra_blocks ==
            RequiredExtraBlocks(size, block_data_size, category.block_data_size)
    IN  IF size = data_size THEN same
        ELSE IF size < data_size
        THEN [same EXCEPT !.P.mem = ReallocShrink(P1.mem, ptr, size, data_size, oob)]
        ELSE IF size < block_data_size
        THEN [same EXCEPT !.P.mem = ReallocGrowInBlock(P1.mem, ptr, size, data_size, oob)]
        ELSE IF /\ ULe(required_extra_blocks,
                       category.total_blocks - category.occupied_blocks)
                /\ CanReallocContinously(P1.mem, category, block, used_block_count,
                                         required_extra_blocks, oob)
        THEN ReallocExtend(P1, c, ptr, size, required_extra_blocks, oob)
        ELSE ReallocRelocate(P1, c, ptr, size, oob)

\* EmbAllocReallocInternal
\* g is the result of the EmbAllocGetCategoryForPtr call of
\* EmbAllocReallocInternal.
ReallocInCategory(g, ptr, size, oob) ==
    IF g.c # EMB_ALLOC_NUM_BLOCK_CATEGORIES
    THEN EmbAllocReallocBlockInternal(g.P, g.c, ptr, size, oob)
    ELSE [P |-> EmbAllocSetErrorInternal(g.P, "PointerParamError"), ret |-> NULL,
          c |-> EMB_ALLOC_NUM_BLOCK_CATEGORIES, k |-> 0, freed |-> FALSE]

EmbAllocReallocInternal(P, ptr, size, oob) ==
    ReallocInCategory(EmbAllocGetCategoryForPtr(P, ptr, oob), ptr, size, oob)

\* EmbAllocRealloc as it would be without the NULL == ptr branch (1664-1672):
\* a null pointer is refused like any pointer that is not a block.
EmbAllocReallocNullRefused(P, ptr, size, oob) ==
    IF ptr = NULL /\ size = 0
    THEN [P |-> ClearMempoolErrorInternal(P), ret |-> NULL,
          c |-> EMB_ALLOC_NUM_BLOCK_CATEGORIES, k |-> 0, freed |-> FALSE]
    ELSE IF ptr # NULL /\ EMB_ALLOC_PTR_IS_BLOCK(P.mem, ptr, oob)
    THEN IF size = 0
         THEN [P |-> EmbAllocFreeInternal(ClearMempoolErrorInternal(P), ptr, oob),
               ret |-> NULL, c |-> EMB_ALLOC_NUM_BLOCK_CATEGORIES, k |-> 0,
               freed |-> TRUE]
         ELSE EmbAllocReallocInternal(ClearMempoolErrorInternal(P), ptr, size, oob)
    ELSE [P |-> EmbAllocSetErrorInternal(ClearMempoolErrorInternal(P), "PointerParamError"),
          ret |-> NULL, c |-> EMB_ALLOC_NUM_BLOCK_CATEGORIES, k |-> 0, freed |-> FALSE]

\* EmbAllocRealloc as it would be without the size = 0 branch (1674-1682): a
\* pointer to a block with size 0 goes to EmbAllocReallocInternal like any
\* other size.
EmbAllocReallocNoFree(P, ptr, size, oob) ==
    IF ptr = NULL /\ size = 0
    THEN [P |-> ClearMempoolErrorInternal(P), ret |-> NULL,
          c |-> EMB_ALLOC_NUM_BLOCK_CATEGORIES, k |-> 0, freed |-> FALSE]
    ELSE IF ptr = NULL
    THEN [freed |-> FALSE] @@ EmbAllocMallocInternal(ClearMempoolErrorInternal(P), size, oob)
    ELSE IF EMB_ALLOC_PTR_IS_BLOCK(P.mem, ptr, oob)
    THEN EmbAllocReallocInternal(ClearMempoolErrorInternal(P), ptr, size, oob)
    ELSE [P |-> EmbAllocSetErrorInternal(ClearMempoolErrorInternal(P), "PointerParamError"),
          ret |-> NULL, c |-> EMB_ALLOC_NUM_BLOCK_CATEGORIES, k |-> 0, freed |-> FALSE]

\* What EmbAllocRealloc does between locking and unlocking the mutex
\* (1664-1695), for ptr or size not null.
ReallocCritical(P, ptr, size, oob) ==
    LET none == [P |-> P, ret |-> NULL, c |-> EMB_ALLOC_NUM_BLOCK_CATEGORIES, k |-> 0,
                 freed |-> FALSE]
    IN  IF ptr = NULL
        THEN [freed |-> FALSE] @@ EmbAllocMallocInternal(P, size, oob)
        ELSE IF EMB_ALLOC_PTR_IS_BLOCK(P.mem, ptr, oob)
        THEN IF size = 0
             THEN [none EXCEPT !.P = EmbAllocFreeInternal(P, ptr, oob), !.freed = TRUE]
             ELSE EmbAllocReallocInternal(P, ptr, size, oob)
        ELSE [none EXCEPT !.P = EmbAllocSetErrorInternal(P, "PointerParamError")]

\* EmbAllocRealloc on a valid pool without a mutex.
EmbAllocRealloc(P, ptr, size, oob) ==
    LET P0 == ClearMempoolErrorInternal(P)
    IN  IF ptr = NULL /\ size = 0
        THEN [P |-> P0, ret |-> NULL, c |-> EMB_ALLOC_NUM_BLOCK_CATEGORIES, k |-> 0,
              freed |-> FALSE]
        ELSE ReallocCritical(P0, ptr, size, oob)

\* ------------------------------------------------------------ the client
\* The request sizes the client uses: the data size of the smallest class (32),
\* a size between two classes (48), the capacity of a run of two 32-byte blocks
\* (112) and a size that needs three of them (128).
Sizes == {32, 48, 112, 128}

\* The settings a pool is created with.
SettingsChoices ==
    { [num_blocks |-> [i \in CategoryIdx |->
                          CASE i = 0 -> n0 [] i = 1 -> n1 [] i = 2 -> n2 [] OTHER -> 0],
       total_size |-> IF consistent THEN n0 * 32 + n1 * 64 + n2 * 128 ELSE 0,
       threadsafe |-> FALSE,
       full_overflow_checks |-> f,
       init_allocated_memory |-> f] :
      n0 \in {Max32}, n1 \in 0 .. Max64, n2 \in 0 .. Max128, f \in BOOLEAN,
      consistent \in BOOLEAN }

\* What a read outside the pool's region may yield: a cell that reads as an
\* unset counter, or one that does not.
OobCells == {WordsCell(EMB_ALLOC_VALUE_NOT_SET, EMB_ALLOC_VALUE_NOT_SET), PoisonCell}

Run(ptr, c, k) == [ptr |-> ptr, c |-> c, k |-> k]

\* The owner of a mutex nobody holds.
NoThread == "none"

\* The sizes EmbAllocRealloc is called with: those of EmbAllocMalloc, and 0.
ReallocSizes == Sizes \cup {0}

\* The calls the model follows.  When the block of ptr starts with the block
\* marker but its two counters hold a byte pattern (poison or marker bytes)
\* instead of a count, EmbAllocGetCategoryForPtr (1298-1304) and
\* EmbAllocFreeBlockInternal (1348-1363) compute from it a length above 2^63
\* and address memory that far from the pool: the behaviour of the C program
\* is undefined from there on, and the model ends the behaviour at that call.
CountersAreCounts(m, ptr, oob) ==
    EMB_ALLOC_PTR_IS_BLOCK(m, ptr, oob) =>
        /\ UseCount(m, BlockFromPtr(ptr), oob) >= EMB_ALLOC_VALUE_NOT_SET
        /\ MemoryUseCount(m, BlockFromPtr(ptr), oob) >= EMB_ALLOC_VALUE_NOT_SET

\* pool = EmbAllocCreate (&s) with one of the settings of SettingsChoices.
Init ==
    \E s \in SettingsChoices :
        /\ settings = EmbAllocCreate(s).settings
        /\ mem = EmbAllocCreate(s).mem
        /\ categories = EmbAllocCreate(s).cat
        /\ last_error = EmbAllocCreate(s).err
        /\ live = {}
        /\ mempool_start = kEmbAllocMempoolStart
        /\ mutex = NoThread
        /\ pc = << >>
        /\ frame = << >>

\* p = EmbAllocMalloc (mempool, size)
Malloc ==
    \E size \in Sizes, oob \in OobCells :
        \E r \in {EmbAllocMalloc(Pool(mem, categories, last_error), size, oob)} :
            /\ mem' = r.P.mem
            /\ categories' = r.P.cat
            /\ last_error' = r.P.err
            /\ live' = IF r.ret # NULL THEN live \cup {Run(r.ret, r.c, r.k)} ELSE live
            /\ UNCHANGED <<settings, unused>>

\* EmbAllocFree (mempool, p) of a pointer the client holds
Free ==
    \E run \in live, oob \in OobCells :
        \E P1 \in {EmbAllocFree(Pool(mem, categories, last_error), run.ptr, oob)} :
            /\ CountersAreCounts(mem, run.ptr, oob)
            /\ mem' = P1.mem
            /\ categories' = P1.cat
            /\ last_error' = P1.err
            /\ live' = {x \in live : x.ptr # run.ptr}
            /\ UNCHANGED <<settings, unused>>

\* q = EmbAllocRealloc (mempool, p, size) of a pointer the client holds, or
\* of NULL
Realloc ==
    \E ptr \in {x.ptr : x \in live} \cup {NULL}, size \in ReallocSizes, oob \in OobCells :
        \E r \in {EmbAllocRealloc(Pool(mem, categories, last_error), ptr, size, oob)} :
            LET kept == IF r.freed \/ r.ret = ptr
                        THEN {x \in live : x.ptr # ptr} ELSE live
            IN  /\ ptr # NULL => CountersAreCounts(mem, ptr, oob)
                /\ mem' = r.P.mem
                /\ categories' = r.P.cat
                /\ last_error' = r.P.err
                /\ live' = IF r.ret # NULL THEN kept \cup {Run(r.ret, r.c, r.k)} ELSE kept
                /\ UNCHANGED <<settings, unused>>

Next == Malloc \/ Free \/ Realloc

Spec == Init /\ [][Next]_vars

\* A second client: a pool that holds ScanBlocks blocks of 32 bytes and
\* nothing else, on which only EmbAllocMalloc of one or two blocks and
\* EmbAllocFree are called.  It is wide enough for the scan of
\* EmbAllocCanAllocInMultipleBlocksInternal to meet an occupied block with
\* more than two blocks between it and last_free_address.
ScanSizes == {32, 48}

ScanSettings ==
    [num_blocks |-> [i \in CategoryIdx |-> IF i = 0 THEN ScanBlocks ELSE 0],
     total_size |-> ScanBlocks * 32,
     threadsafe |-> FALSE,
     full_overflow_checks |-> FALSE,
     init_allocated_memory |-> FALSE]

InitScan ==
    /\ settings = ScanSettings
    /\ mem = EmbAllocInitializeDataBlocksInternal(settings)
    /\ categories = EmbAllocInitializeBlockCategoriesInternal(settings)
    /\ last_error = "NoErr"
    /\ live = {}
    /\ mempool_start = kEmbAllocMempoolStart
    /\ mutex = NoThread
    /\ pc = << >>
    /\ frame = << >>

\* p = EmbAllocMalloc (mempool, size) with a size of ScanSizes
MallocSmall ==
    \E size \in ScanSizes, oob \in OobCells :
        \E r \in {EmbAllocMalloc(Pool(mem, categories, last_error), size, oob)} :
            /\ mem' = r.P.mem
            /\ categories' = r.P.cat
            /\ last_error' = r.P.err
            /\ live' = IF r.ret # NULL THEN live \cup {Run(r.ret, r.c, r.k)} ELSE live
            /\ UNCHANGED <<settings, unused>>

NextScan == MallocSmall \/ Free

SpecScan == InitScan /\ [][NextScan]_vars

\* A pool with three classes, on which EmbAllocMalloc of 48 bytes has to choose
\* between one 128-byte block and two 32-byte blocks once the 64-byte blocks
\* are in use.
ResidualSettings ==
    [num_blocks |-> [i \in CategoryIdx |->
                        CASE i = 0 -> ScanBlocks [] i = 1 -> Residual64
                          [] i = 2 -> Residual128 [] OTHER -> 0],
     total_size |-> ScanBlocks * 32 + Residual64 * 64 + Residual128 * 128,
     threadsafe |-> FALSE,
     full_overflow_checks |-> FALSE,
     init_allocated_memory |-> FALSE]

InitResidual ==
    /\ settings = ResidualSettings
    /\ mem = EmbAllocInitializeDataBlocksInternal(settings)
    /\ categories = EmbAllocInitializeBlockCategoriesInternal(settings)
    /\ last_error = "NoErr"
    /\ live = {}
    /\ mempool_start = kEmbAllocMempoolStart
    /\ mutex = NoThread
    /\ pc = << >>
    /\ frame = << >>

SpecResidual == InitResidual /\ [][NextScan]_vars

\* ----------------------------------------------------- the life of a pool
\* EmbAllocGetLastErrorCode on a valid pool.
EmbAllocGetLastErrorCode(P) == P.err

\* EMB_ALLOC_PTR_IS_MEMPOOL: start is what the first EMB_ALLOC_ALIGN_AMOUNT
\* bytes at the handle hold.
EMB_ALLOC_PTR_IS_MEMPOOL(start) == start = kEmbAllocMempoolStart

\* The result of a call that returns NULL and leaves the pool P as it is.
NullResult(P) ==
    [P |-> P, ret |-> NULL, c |-> EMB_ALLOC_NUM_BLOCK_CATEGORIES, k |-> 0, freed |-> FALSE]

\* EmbAllocMalloc (mempool, size) from the test of the handle on.
MallocOnHandle(start, P, size, oob) ==
    IF EMB_ALLOC_PTR_IS_MEMPOOL(start)
    THEN [freed |-> FALSE] @@ EmbAllocMalloc(P, size, oob)
    ELSE NullResult(P)

\* EmbAllocFree on any handle, without the test of the handle.
FreeOnAnyHandle(start, P, ptr, oob) == EmbAllocFree(P, ptr, oob)

\* EmbAllocFree (mempool, ptr) from the test of the handle on.
FreeOnHandle(start, P, ptr, oob) ==
    IF EMB_ALLOC_PTR_IS_MEMPOOL(start) THEN EmbAllocFree(P, ptr, oob) ELSE P

\* EmbAllocRealloc (mempool, ptr, size) from the test of the handle on.
ReallocOnHandle(start, P, ptr, size, oob) ==
    IF EMB_ALLOC_PTR_IS_MEMPOOL(start) THEN EmbAllocRealloc(P, ptr, size, oob)
    ELSE NullResult(P)

\* EmbAllocGetLastErrorCode (mempool) from the test of the handle on.
GetLastErrorCodeOnHandle(start, P) ==
    IF EMB_ALLOC_PTR_IS_MEMPOOL(start) THEN EmbAllocGetLastErrorCode(P)
    ELSE "InvalidMempool"

\* EmbAllocGetSettings (mempool, has_out ? &out : NULL) on a pool that stores
\* the settings s: the value returned, the caller's struct and the pool after
\* the call.
EmbAllocGetSettings(start, P, s, out, has_out) ==
    IF EMB_ALLOC_PTR_IS_MEMPOOL(start)
    THEN IF has_out
         THEN [ok |-> TRUE, out |-> s, P |-> P]
         ELSE [ok |-> FALSE, out |-> out,
               P |-> EmbAllocSetErrorInternal(P, "OutputParamError")]
    ELSE [ok |-> FALSE, out |-> out, P |-> P]

\* A settings struct and the categories of a region filled with zero bytes.
ZeroSettings ==
    [num_blocks |-> [i \in CategoryIdx |-> 0],
     total_size |-> 0,
     threadsafe |-> FALSE,
     full_overflow_checks |-> FALSE,
     init_allocated_memory |-> FALSE]

ZeroCategories ==
    [i \in CategoryIdx |->
        [ block_data_size |-> 0, total_blocks |-> 0, occupied_blocks |-> 0,
          start_address |-> NULL, first_free_address |-> NULL,
          last_address |-> NULL, last_free_address |-> NULL ] ]

\* EmbAllocDestroy (mempool) of a pool without a mutex: the value returned and
\* what the region holds when it is released (zero bytes everywhere, 718-727).
EmbAllocDestroy(start, s, P) ==
    IF EMB_ALLOC_PTR_IS_MEMPOOL(start)
    THEN [ok |-> TRUE, start |-> ZeroCell, settings |-> ZeroSettings,
          P |-> Pool([i \in DOMAIN P.mem |-> ZeroCell], ZeroCategories, "NoErr")]
    ELSE [ok |-> FALSE, start |-> start, settings |-> s, P |-> P]

\* The settings the client of SpecLife fills in: up to Life32 blocks of 32
\* bytes, no or Life64 blocks of 64 bytes, and a total_size that is the sum of
\* the payloads, 0 or 256.
LifeSettings ==
    { [num_blocks |-> [i \in CategoryIdx |->
                          CASE i = 0 -> n0 [] i = 1 -> n1 [] OTHER -> 0],
       total_size |-> t,
       threadsafe |-> FALSE,
       full_overflow_checks |-> f,
       init_allocated_memory |-> f] :
      n0 \in 0 .. Life32, n1 \in {0, Life64}, t \in {0, 256, 32 * Life32 + 64 * Life64},
      f \in BOOLEAN }

LifeSizes == {32, 128}

\* The client's locals: the settings struct s it creates the pool from, the
\* handle it holds and the struct out it hands to EmbAllocGetSettings.
ClientFrame(s, handle, out) == [s |-> s, handle |-> handle, out |-> out]

\* Before the first EmbAllocCreate: no region, a zeroed out struct.
InitLife ==
    /\ frame \in { ClientFrame(s, "null", ZeroSettings) : s \in LifeSettings }
    /\ settings = ZeroSettings
    /\ mem = << >>
    /\ categories = ZeroCategories
    /\ last_error = "NoErr"
    /\ live = {}
    /\ mempool_start = ZeroCell
    /\ mutex = NoThread
    /\ pc = << >>

\* mempool = EmbAllocCreate (&s)
LifeCreate ==
    /\ frame.handle = "null"
    /\ settings' = EmbAllocCreate(frame.s).settings
    /\ mem' = EmbAllocCreate(frame.s).mem
    /\ categories' = EmbAllocCreate(frame.s).cat
    /\ last_error' = EmbAllocCreate(frame.s).err
    /\ mempool_start' = kEmbAllocMempoolStart
    /\ live' = {}
    /\ frame' = [frame EXCEPT !.handle = "pool"]
    /\ UNCHANGED <<mutex, pc>>

\* The user writes over the first bytes of the pool.
LifeClobber ==
    /\ frame.handle = "pool"
    /\ mempool_start = kEmbAllocMempoolStart
    /\ mempool_start' = DataCell
    /\ UNCHANGED <<settings, mem, categories, last_error, live, mutex, pc, frame>>

\* p = EmbAllocMalloc (mempool, size)
LifeMalloc ==
    \E size \in LifeSizes, oob \in OobCells :
        \E r \in {MallocOnHandle(mempool_start, Pool(mem, categories, last_error), size, oob)} :
            /\ frame.handle = "pool"
            /\ mem' = r.P.mem
            /\ categories' = r.P.cat
            /\ last_error' = r.P.err
            /\ live' = IF r.ret # NULL THEN live \cup {Run(r.ret, r.c, r.k)} ELSE live
            /\ UNCHANGED <<settings, unused>>

\* EmbAllocFree (mempool, p) of a pointer the client holds
LifeFree ==
    \E run \in live, oob \in OobCells :
        \E P1 \in {FreeOnHandle(mempool_start, Pool(mem, categories, last_error), run.ptr, oob)} :
            /\ frame.handle = "pool"
            /\ CountersAreCounts(mem, run.ptr, oob)
            /\ mem' = P1.mem
            /\ categories' = P1.cat
            /\ last_error' = P1.err
            /\ live' = IF EMB_ALLOC_PTR_IS_MEMPOOL(mempool_start)
                       THEN {x \in live : x.ptr # run.ptr} ELSE live
            /\ UNCHANGED <<settings, unused>>

\* ok = EmbAllocGetSettings (mempool, &out) or EmbAllocGetSettings (mempool, NULL)
LifeGetSettings ==
    \E has_out \in BOOLEAN :
        \E r \in {EmbAllocGetSettings(mempool_start, Pool(mem, categories, last_error),
                                      settings, frame.out, has_out)} :
            /\ frame.handle = "pool"
            /\ frame' = [frame EXCEPT !.out = r.out]
            /\ last_error' = r.P.err
            /\ UNCHANGED <<settings, mem, categories, live, mempool_start, mutex, pc>>

\* ok = EmbAllocDestroy (mempool); the client drops the handle when ok.
LifeDestroy ==
    \E r \in {EmbAllocDestroy(mempool_start, settings, Pool(mem, categories, last_error))} :
        /\ frame.handle = "pool"
        /\ mempool_start' = r.start
        /\ settings' = r.settings
        /\ mem' = r.P.mem
        /\ categories' = r.P.cat
        /\ last_error' = r.P.err
        /\ live' = IF r.ok THEN {} ELSE live
        /\ frame' = [frame EXCEPT !.handle = IF r.ok THEN "null" ELSE "pool"]
        /\ UNCHANGED <<mutex, pc>>

NextLife ==
    LifeCreate \/ LifeClobber \/ LifeMalloc \/ LifeFree \/ LifeGetSettings \/ LifeDestroy

SpecLife == InitLife /\ [][NextLife]_vars

\* ------------------------------------------- threads on a threadsafe pool
\* Two threads call EmbAllocMalloc, EmbAllocFree, EmbAllocRealloc and
\* EmbAllocDestroy on one pool created with threadsafe set.  A call is a
\* sequence of steps: the clearing of the last error, EmbAllocLockMutex, the
\* work between lock and unlock, EmbAllocUnlockMutex and the return.
\* mutex.owner is the thread that holds thread_sync_mutex; mutex.failed tells
\* that an EmbAllocLockMutex call has returned an error.
Threads == {"t1", "t2"}

ThreadSettings ==
    { [num_blocks |-> [i \in CategoryIdx |-> IF i = 0 THEN Thread32 ELSE 0],
       total_size |-> t,
       threadsafe |-> TRUE,
       full_overflow_checks |-> FALSE,
       init_allocated_memory |-> FALSE] : t \in {0, 32 * Thread32} }

\* The sizes the threads ask for: one block, and more than one block.
ThreadMallocSize == 32
ThreadReallocSize == 48

NoRun == Run(NULL, EMB_ALLOC_NUM_BLOCK_CATEGORIES, 0)

\* The locals of a call: the function, its size and pointer arguments, whether
\* its EmbAllocLockMutex call returned 0, the value it is going to return, and
\* the copy EmbAllocDestroy makes of the mutex (714).
CallFrame(op, size, run) ==
    [op |-> op, size |-> size, run |-> run, locked |-> FALSE, ret |-> NoRun,
     freed |-> FALSE, copy |-> NoThread]

IdleFrame == CallFrame("none", 0, NoRun)

InitThreads ==
    \E s \in ThreadSettings :
        /\ settings = EmbAllocCreate(s).settings
        /\ mem = EmbAllocCreate(s).mem
        /\ categories = EmbAllocCreate(s).cat
        /\ last_error = EmbAllocCreate(s).err
        /\ live = {}
        /\ mempool_start = kEmbAllocMempoolStart
        /\ mutex = [owner |-> NoThread, failed |-> FALSE]
        /\ pc = [t \in Threads |-> "idle"]
        /\ frame = [t \in Threads |-> IdleFrame]

\* Thread t enters EmbAllocMalloc, EmbAllocFree or EmbAllocRealloc with a
\* pointer no other thread is using; the handle passes EMB_ALLOC_PTR_IS_MEMPOOL.
ThreadCall(t) ==
    /\ pc[t] = "idle"
    /\ EMB_ALLOC_PTR_IS_MEMPOOL(mempool_start)
    /\ \/ /\ frame' = [frame EXCEPT ![t] = CallFrame("malloc", ThreadMallocSize, NoRun)]
          /\ live' = live
       \/ \E run \in live, op \in {"free", "realloc"} :
             /\ CountersAreCounts(mem, run.ptr, PoisonCell)
             /\ frame' = [frame EXCEPT ![t] = CallFrame(op, ThreadReallocSize, run)]
             /\ live' = live \ {run}
    /\ pc' = [pc EXCEPT ![t] = "clear"]
    /\ UNCHANGED <<settings, mem, categories, last_error, mempool_start, mutex>>

\* ClearMempoolErrorInternal (aux_data) at 1191, 1399 and 1634
ThreadClear(t) ==
    /\ pc[t] = "clear"
    /\ last_error' = ClearMempoolErrorInternal(Pool(mem, categories, last_error)).err
    /\ pc' = [pc EXCEPT ![t] = "lock"]
    /\ UNCHANGED <<settings, mem, categories, live, mempool_start, mutex, frame>>

\* EmbAllocLockMutex (&(aux_data->thread_sync_mutex)) at 1209, 1417 and 1658:
\* it returns 0 once the thread holds the mutex, or it returns an error, which
\* the caller records before it goes on.
ThreadLock(t) ==
    /\ pc[t] = "lock"
    /\ \/ /\ mutex.owner = NoThread
          /\ mutex' = [mutex EXCEPT !.owner = t]
          /\ frame' = [frame EXCEPT ![t].locked = TRUE]
          /\ last_error' = last_error
       \/ /\ mutex' = [mutex EXCEPT !.failed = TRUE]
          /\ frame' = frame
          /\ last_error' = EmbAllocSetErrorInternal(Pool(mem, categories, last_error),
                                                    "ThreadSyncError").err
    /\ pc' = [pc EXCEPT ![t] = "critical"]
    /\ UNCHANGED <<settings, mem, categories, live, mempool_start>>

\* The result of the work thread t does between lock and unlock.
CriticalResult(t, oob) ==
    LET P == Pool(mem, categories, last_error)
        f == frame[t]
    IN  IF f.op = "malloc" THEN [freed |-> FALSE] @@ EmbAllocMallocInternal(P, f.size, oob)
        ELSE IF f.op = "free"
        THEN [NullResult(FreeCritical(P, f.run.ptr, oob)) EXCEPT !.freed = TRUE]
        ELSE IF f.op = "getsettings"
        THEN NullResult(EmbAllocGetSettings(mempool_start, P, settings, settings, FALSE).P)
        ELSE ReallocCritical(P, f.run.ptr, f.size, oob)

\* EmbAllocMallocInternal (1214), EmbAllocFreeInternal (1423-1432) or the
\* branches of EmbAllocRealloc (1664-1695)
ThreadCritical(t) ==
    /\ pc[t] = "critical"
    /\ \E oob \in OobCells :
          \E r \in {CriticalResult(t, oob)} :
              /\ mem' = r.P.mem
              /\ categories' = r.P.cat
              /\ last_error' = r.P.err
              /\ frame' = [frame EXCEPT ![t].ret = Run(r.ret, r.c, r.k),
                                        ![t].freed = r.freed]
    /\ pc' = [pc EXCEPT ![t] = "unlock"]
    /\ UNCHANGED <<settings, live, mempool_start, mutex>>

\* The runs the client holds after the call of frame f has returned.
LiveAfter(f) ==
    (IF f.ret.ptr # NULL THEN {f.ret} ELSE {}) \cup
    (IF f.op = "realloc" /\ ~f.freed /\ f.ret.ptr # f.run.ptr THEN {f.run} ELSE {})

\* A return that leaves the mutex as it is.
ReturnWithoutUnlock(t) ==
    /\ pc[t] = "unlock"
    /\ live' = live \cup LiveAfter(frame[t])
    /\ frame' = [frame EXCEPT ![t] = IdleFrame]
    /\ pc' = [pc EXCEPT ![t] = "idle"]
    /\ UNCHANGED <<settings, mem, categories, last_error, mempool_start, mutex>>

\* EmbAllocUnlockMutex at 1219, 1434 and 1697, and the return.  Unlocking a
\* mutex the thread does not hold (its lock call had failed) is undefined for
\* a pthread mutex: the call reports an error, which the caller records, or
\* it releases the mutex of its owner.
ThreadUnlock(t) ==
    /\ pc[t] = "unlock"
    /\ \/ /\ mutex.owner = t
          /\ mutex' = [mutex EXCEPT !.owner = NoThread]
          /\ last_error' = last_error
       \/ /\ mutex.owner # t
          /\ mutex' = mutex
          /\ last_error' = EmbAllocSetErrorInternal(Pool(mem, categories, last_error),
                                                    "ThreadSyncError").err
       \/ /\ mutex.owner # t
          /\ mutex' = [mutex EXCEPT !.owner = NoThread]
          /\ last_error' = last_error
    /\ live' = live \cup LiveAfter(frame[t])
    /\ frame' = [frame EXCEPT ![t] = IdleFrame]
    /\ pc' = [pc EXCEPT ![t] = "idle"]
    /\ UNCHANGED <<settings, mem, categories, mempool_start>>

\* Thread t enters EmbAllocDestroy: the handle passes EMB_ALLOC_PTR_IS_MEMPOOL
\* and the mutex is copied into the local thread_sync_mutex (714).
DestroyEnter(t) ==
    /\ pc[t] = "idle"
    /\ EMB_ALLOC_PTR_IS_MEMPOOL(mempool_start)
    /\ frame' = [frame EXCEPT ![t] = [CallFrame("destroy", 0, NoRun) EXCEPT
                                         !.copy = mutex.owner]]
    /\ pc' = [pc EXCEPT ![t] = "destroy_lock"]
    /\ UNCHANGED <<settings, mem, categories, last_error, live, mempool_start, mutex>>

\* EmbAllocLockMutex (&thread_sync_mutex) at 719: the call works on the local
\* copy, an object of its own in the pthread build (EmbAllocMutex is
\* pthread_mutex_t).  It takes the copy when the copy was made of a free
\* mutex, waits for ever when it was made of a held one, or returns an error,
\* which is recorded; the mutex inside the pool is not touched.
DestroyLock(t) ==
    /\ pc[t] = "destroy_lock"
    /\ \/ /\ frame[t].copy = NoThread
          /\ frame' = [frame EXCEPT ![t].copy = t]
          /\ UNCHANGED <<mutex, last_error>>
       \/ /\ mutex' = [mutex EXCEPT !.failed = TRUE]
          /\ last_error' = EmbAllocSetErrorInternal(Pool(mem, categories, last_error),
                                                    "ThreadSyncError").err
          /\ frame' = frame
    /\ pc' = [pc EXCEPT ![t] = "destroy_zero"]
    /\ UNCHANGED <<settings, mem, categories, live, mempool_start>>

\* memset (mempool, 0, ...) and free (mempool) at 727-728.  The region is
\* gone afterwards, so every thread stops here.
DestroyZero(t) ==
    /\ pc[t] = "destroy_zero"
    /\ mempool_start' = ZeroCell
    /\ settings' = ZeroSettings
    /\ mem' = [i \in DOMAIN mem |-> ZeroCell]
    /\ categories' = ZeroCategories
    /\ last_error' = "NoErr"
    /\ mutex' = [mutex EXCEPT !.owner = NoThread]
    /\ pc' = [u \in Threads |-> "gone"]
    /\ UNCHANGED <<live, frame>>

NextThreads ==
    \E t \in Threads :
        \/ ThreadCall(t)
        \/ ThreadClear(t)
        \/ ThreadLock(t)
        \/ ThreadCritical(t)
        \/ ThreadUnlock(t)
        \/ DestroyEnter(t)
        \/ DestroyLock(t)
        \/ DestroyZero(t)

SpecThreads == InitThreads /\ [][NextThreads]_vars

\* ------------------------------------------- the lock under fair scheduling
\* Thread t enters EmbAllocGetSettings (mempool, NULL): the handle passes
\* EMB_ALLOC_PTR_IS_MEMPOOL and the call goes to EmbAllocLockMutex at 1756
\* without clearing the last error.
GetSettingsCall(t) ==
    /\ pc[t] = "idle"
    /\ EMB_ALLOC_PTR_IS_MEMPOOL(mempool_start)
    /\ frame' = [frame EXCEPT ![t] = CallFrame("getsettings", 0, NoRun)]
    /\ pc' = [pc EXCEPT ![t] = "lock"]
    /\ UNCHANGED <<settings, mem, categories, last_error, live, mempool_start, mutex>>

\* EmbAllocLockMutex returns 0: pthread_mutex_lock on the mutex of the pool,
\* which waits until no thread holds it.
LockAcquire(t) == ThreadLock(t) /\ frame'[t].locked

\* Threads that call EmbAllocMalloc, EmbAllocFree, EmbAllocRealloc and
\* EmbAllocGetSettings (mempool, NULL) on a pool that is not destroyed and
\* whose mutex is valid, so that every lock call returns 0.
NextLock ==
    \E t \in Threads :
        \/ ThreadCall(t)
        \/ GetSettingsCall(t)
        \/ ThreadClear(t)
        \/ LockAcquire(t)
        \/ ThreadCritical(t)
        \/ ThreadUnlock(t)

\* Fair scheduling: a thread inside a call that can take its next step takes
\* it (the calls have no loop that waits for another thread), and a thread
\* that waits in pthread_mutex_lock gets the mutex if it is free again and
\* again.  The step of ThreadCritical (t) is the only step that takes thread
\* t from "critical" to "unlock" and it is enabled whenever the thread is at
\* "critical", so its fairness is stated on the position of the thread.
SpecLock ==
    /\ InitThreads
    /\ [][NextLock]_vars
    /\ \A t \in Threads :
          /\ WF_vars(ThreadClear(t))
          /\ SF_vars(LockAcquire(t))
          /\ WF_pc(pc[t] = "critical" /\ pc' = [pc EXCEPT ![t] = "unlock"])
          /\ WF_vars(ThreadUnlock(t))

\* ================================================================ claims
\* The pool the next call works on.
ThePool == Pool(mem, categories, last_error)

\* The distance between two blocks of category c.
Stride(c) == EMB_ALLOC_BLOCK_TOTAL_ALIGN_SIZE(CategoryDataSize(c))

\* The addresses of the blocks of category c.
ClassBlocks(cat, c) ==
    { cat[c].start_address + i * Stride(c) : i \in 0 .. cat[c].total_blocks - 1 }

\* A block of the pool whose run_count is UNSET: the test of the code for a
\* free block.
IsFreeBlock(m, block) == UseCount(m, block, PoisonCell) = EMB_ALLOC_VALUE_NOT_SET

\* The FREE state of a block of payload size d (I2 of the specification).
InFreeState(m, block, d) ==
    /\ m[CellOf(block)] = kEmbAllocBlockStart
    /\ m[CellOf(block) + 1] = WordsCell(EMB_ALLOC_VALUE_NOT_SET, EMB_ALLOC_VALUE_NOT_SET)
    /\ \A i \in CellOf(block) + 2 .. CellOf(block + 2 * A + d) - 1 : m[i] = PoisonCell
    /\ m[CellOf(block + 2 * A + d)] = kEmbAllocBlockEnd

\* The state (run_count, data_size) of every block of every category.
BlockStates(m, cat) ==
    [c \in CategoryIdx |->
        [b \in ClassBlocks(cat, c) |-> m[CellOf(b) + 1]]]

\* The first byte after the last block of a run.
RunEnd(r) == BlockFromPtr(r.ptr) + r.k * Stride(r.c)

\* The sum of run_count over a set of runs.
RECURSIVE SumRunCount(_)
SumRunCount(S) ==
    IF S = {} THEN 0
    ELSE LET r == CHOOSE x \in S : TRUE IN r.k + SumRunCount(S \ {r})

\* ceil((n + 3A) / (d + 3A)): the blocks of payload size d a request of n
\* bytes needs.
NeededBlocks(n, d) == (n + 3 * A + d + 3 * A - 1) \div (d + 3 * A)

\* Category c holds NeededBlocks(n, d) adjacent free blocks.
HasFreeRun(m, cat, c, n) ==
    \E first \in ClassBlocks(cat, c) :
        \A i \in 0 .. NeededBlocks(n, cat[c].block_data_size) - 1 :
            /\ first + i * Stride(c) \in ClassBlocks(cat, c)
            /\ IsFreeBlock(m, first + i * Stride(c))

\* Some category can satisfy a request of n bytes.
CanSatisfy(m, cat, n) == \E c \in CategoryIdx : HasFreeRun(m, cat, c, n)

\* The smallest category whose data_size is at least n.
BestFit(n) ==
    CHOOSE c \in CategoryIdx :
        /\ CategoryDataSize(c) >= n
        /\ \A j \in CategoryIdx : CategoryDataSize(j) >= n => c <= j

\* C1: no block belongs to two live allocations: the block ranges of any two
\* pointers that were returned by Malloc or Realloc and not yet freed are
\* disjoint.
C1_LiveRunsDisjoint ==
    \A r1, r2 \in live :
        r1 # r2 => RunEnd(r1) <= BlockFromPtr(r2.ptr) \/ RunEnd(r2) <= BlockFromPtr(r1.ptr)

\* C2: invariant I4 at the exit of every call: in every class
\* 0 <= occupied_blocks <= total_blocks, and occupied_blocks is the sum of
\* run_count over the live runs of the class.
C2_OccupiedIsSumOfRuns ==
    \A c \in CategoryIdx :
        /\ 0 <= categories[c].occupied_blocks
        /\ categories[c].occupied_blocks <= categories[c].total_blocks
        /\ categories[c].occupied_blocks = SumRunCount({r \in live : r.c = c})

\* C3: invariant I5 at the exit of every call: in every class no free block
\* lies below first_free_address or above last_free_address, and the two
\* cursors are null only when occupied_blocks = total_blocks.
C3_CursorsBoundFreeBlocks ==
    \A c \in CategoryIdx :
        /\ \A b \in ClassBlocks(categories, c) :
              IsFreeBlock(mem, b) =>
                 /\ categories[c].first_free_address # NULL
                 /\ categories[c].last_free_address # NULL
                 /\ categories[c].first_free_address <= b
                 /\ b <= categories[c].last_free_address
        /\ (categories[c].first_free_address = NULL \/ categories[c].last_free_address = NULL)
              => categories[c].occupied_blocks = categories[c].total_blocks

\* C4: once every outstanding pointer is freed, every block of the pool is
\* FREE, every class has occupied_blocks = 0, and in every non-empty class the
\* cursors are start_address and last_address.
C4_AllFreedIsPristine ==
    live = {} =>
        \A c \in CategoryIdx :
            /\ categories[c].occupied_blocks = 0
            /\ categories[c].first_free_address = categories[c].start_address
            /\ categories[c].last_free_address = categories[c].last_address
            /\ \A b \in ClassBlocks(categories, c) :
                  InFreeState(mem, b, categories[c].block_data_size)

\* C5: round trip: when Malloc(pool, n) returns a non-null p, the Free(pool, p)
\* that follows restores the block states, occupied_blocks and both cursors of
\* every class to what they were before the Malloc.
C5_FreeUndoesMalloc ==
    \A size \in Sizes, oob \in OobCells :
        LET r == EmbAllocMalloc(ThePool, size, oob)
            P2 == EmbAllocFree(r.P, r.ret, oob)
        IN  r.ret # NULL =>
               /\ P2.cat = categories
               /\ BlockStates(P2.mem, P2.cat) = BlockStates(mem, categories)

\* C6: availability: Malloc(pool, n) returns null only when no class holds
\* the adjacent free blocks the request needs (one free block in a class with
\* data_size >= n, ceil((n+3A)/(d+3A)) of them otherwise).
C6_NullOnlyWhenNoRoom ==
    \A size \in Sizes, oob \in OobCells :
        CanSatisfy(mem, categories, size) => EmbAllocMalloc(ThePool, size, oob).ret # NULL

C8_NoMemoryChangesNothing ==
    \A size \in Sizes, oob \in OobCells :
        LET r == EmbAllocMalloc(ThePool, size, oob)
        IN  (r.ret = NULL /\ ~CanSatisfy(mem, categories, size)) =>
               /\ r.P.err = "NoMemory"
               /\ r.P.cat = categories
               /\ BlockStates(r.P.mem, r.P.cat) = BlockStates(mem, categories)

\* The capacity B = k*d + (k-1)*3A of a run of k blocks of payload size d.
Capacity(k, d) == k * d + (k - 1) * 3 * A

\* ceil((n - B) / (d + 3A)): the blocks an extension from capacity B to n
\* bytes adds.
ExtraBlocks(n, B, d) == (n - B + d + 3 * A - 1) \div (d + 3 * A)

\* Run r is a live run of r.k blocks of its category in the pool, and a
\* request of n bytes exceeds its capacity while the blocks right after it
\* that the extension needs are free blocks of the same category.
CanExtendInPlace(r, n) ==
    LET block == BlockFromPtr(r.ptr)
        d == categories[r.c].block_data_size
        B == Capacity(r.k, d)
    IN  /\ block \in ClassBlocks(categories, r.c)
        /\ mem[CellOf(block)] = kEmbAllocBlockStart
        /\ UseCount(mem, block, PoisonCell) = r.k
        /\ MemoryUseCount(mem, block, PoisonCell) \in 1 .. B
        /\ n > B
        /\ \A i \in 0 .. ExtraBlocks(n, B, d) - 1 :
              /\ block + (r.k + i) * Stride(r.c) \in ClassBlocks(categories, r.c)
              /\ IsFreeBlock(mem, block + (r.k + i) * Stride(r.c))

\* C9: realloc in place: for a live run of k blocks with capacity B and a
\* request n > B, when the e = ceil((n-B)/(d+3A)) blocks right after the run
\* are free blocks of the same class, Realloc returns the same pointer, the
\* run has run_count = k+e and data_size = n, and occupied_blocks grew by e.
C9_ReallocExtendsInPlace ==
    \A r \in live, size \in Sizes, oob \in OobCells :
        LET res == EmbAllocRealloc(ThePool, r.ptr, size, oob)
            e == ExtraBlocks(size, Capacity(r.k, categories[r.c].block_data_size),
                             categories[r.c].block_data_size)
        IN  CanExtendInPlace(r, size) =>
               /\ res.ret = r.ptr
               /\ res.P.mem[CellOf(BlockFromPtr(r.ptr)) + 1] = WordsCell(r.k + e, size)
               /\ res.P.cat[r.c].occupied_blocks = categories[r.c].occupied_blocks + e

\* C10: every live run lies entirely inside one class: a run of k blocks that
\* starts at block b of class c has b + (k-1)*(d_c+3A) <= last_address(c).
C10_RunsInsideOneClass ==
    \A r \in live :
        /\ BlockFromPtr(r.ptr) \in ClassBlocks(categories, r.c)
        /\ BlockFromPtr(r.ptr) + (r.k - 1) * Stride(r.c) <= categories[r.c].last_address

\* ------------------------------------------------- claims about Realloc

\* The client fills the n bytes it asked for at ptr.
UserWrite(m, ptr, n) == Memset(m, ptr, DataCell, n)

\* data_size as stored at the first block of run r.
StoredSize(r) == MemoryUseCount(mem, BlockFromPtr(r.ptr), PoisonCell)

\* The blocks of run r.
RunBlocks(r) == { BlockFromPtr(r.ptr) + i * Stride(r.c) : i \in 0 .. r.k - 1 }

\* Run r of the client is a run of the pool: r.k blocks of its category, with
\* BLK_HEAD, run_count = r.k and a data_size within the capacity stored at the
\* first block, and BLK_TAIL at the end of the last block.
IsLiveRun(r) ==
    LET block == BlockFromPtr(r.ptr)
        d == categories[r.c].block_data_size
    IN  /\ RunBlocks(r) \subseteq ClassBlocks(categories, r.c)
        /\ mem[CellOf(block)] = kEmbAllocBlockStart
        /\ UseCount(mem, block, PoisonCell) = r.k
        /\ StoredSize(r) \in 1 .. Capacity(r.k, d)
        /\ mem[CellOf(EndPaddingFromBlock(block, Capacity(r.k, d)))] = kEmbAllocBlockEnd

\* The blocks right after run r that an extension to n bytes needs are free
\* blocks of the category of r.
NextBlocksFree(r, n) ==
    LET d == categories[r.c].block_data_size
    IN  \A i \in 0 .. ExtraBlocks(n, Capacity(r.k, d), d) - 1 :
           /\ BlockFromPtr(r.ptr) + (r.k + i) * Stride(r.c) \in ClassBlocks(categories, r.c)
           /\ IsFreeBlock(mem, BlockFromPtr(r.ptr) + (r.k + i) * Stride(r.c))

\* Realloc(pool, r.ptr, n) has to relocate: n exceeds the capacity of the run
\* and the run cannot be extended in place.
MustRelocate(r, n) ==
    /\ IsLiveRun(r)
    /\ n > Capacity(r.k, categories[r.c].block_data_size)
    /\ ~NextBlocksFree(r, n)

\* C11: relocating Realloc, success: when Realloc(pool, p, n) needs more than
\* the capacity of the run, cannot extend in place, and a fresh allocation for
\* n succeeds, it returns q # p, q's run is live with data_size = n, every
\* block of p's former run is FREE, and the first old data_size bytes of p's
\* payload are copied to q.
C11_ReallocRelocates ==
    \A r \in live, size \in Sizes, oob \in OobCells :
        LET old == StoredSize(r)
            P == Pool(UserWrite(mem, r.ptr, old), categories, last_error)
            res == EmbAllocRealloc(P, r.ptr, size, oob)
            q == res.ret
        IN  (MustRelocate(r, size) /\ EmbAllocMalloc(P, size, oob).ret # NULL) =>
               /\ q # NULL
               /\ q # r.ptr
               /\ ReadCell(res.P.mem, BlockFromPtr(q), PoisonCell) = kEmbAllocBlockStart
               /\ ReadCell(res.P.mem, BlockFromPtr(q) + A, PoisonCell) = WordsCell(res.k, size)
               /\ \A b \in RunBlocks(r) :
                     InFreeState(res.P.mem, b, categories[r.c].block_data_size)
               /\ \A i \in 0 .. CellOf(old) - 1 :
                     ReadCell(res.P.mem, q + i * A, PoisonCell) = DataCell

\* C12: relocating Realloc, failure: when Realloc(pool, p, n) can neither
\* extend in place nor obtain a fresh allocation for n, it returns null and
\* the run of p is freed: its blocks are FREE and occupied_blocks of its
\* class drops by its run_count.
C12_ReallocFailureFrees ==
    \A r \in live, size \in Sizes, oob \in OobCells :
        LET res == EmbAllocRealloc(ThePool, r.ptr, size, oob)
        IN  (MustRelocate(r, size) /\ EmbAllocMalloc(ThePool, size, oob).ret = NULL) =>
               /\ res.ret = NULL
               /\ \A b \in RunBlocks(r) :
                     InFreeState(res.P.mem, b, categories[r.c].block_data_size)
               /\ res.P.cat[r.c].occupied_blocks = categories[r.c].occupied_blocks - r.k

\* C13: Realloc(pool, p, n) with n the current data_size of the live run p
\* returns p and leaves run_count, data_size, every block and every class
\* entry unchanged.
C13_ReallocSameSize ==
    \A r \in live, oob \in OobCells :
        LET res == EmbAllocRealloc(ThePool, r.ptr, StoredSize(r), oob)
        IN  IsLiveRun(r) =>
               /\ res.ret = r.ptr
               /\ res.P.mem = mem
               /\ res.P.cat = categories

\* C14: Realloc(pool, p, 0) with p a live pointer returns null and produces
\* the pool state (blocks, occupied_blocks, cursors, last error) that
\* Free(pool, p) produces from the same state.
C14_ReallocZeroIsFree ==
    \A r \in live, oob \in OobCells :
        LET res == EmbAllocRealloc(ThePool, r.ptr, 0, oob)
        IN  /\ res.ret = NULL
            /\ res.P = EmbAllocFree(ThePool, r.ptr, oob)

\* A live run of two blocks on which Realloc(pool, p, 0) returns null and
\* leaves both blocks FREE.
C14_Witness ==
    \E r \in live :
        LET res == EmbAllocRealloc(ThePool, r.ptr, 0, PoisonCell)
        IN  /\ IsLiveRun(r) /\ r.k = 2
            /\ res.ret = NULL
            /\ res.P.cat[r.c].occupied_blocks = categories[r.c].occupied_blocks - 2
            /\ \A b \in RunBlocks(r) :
                  InFreeState(res.P.mem, b, categories[r.c].block_data_size)

\* C15: for every n > 0, Realloc(pool, null, n) returns the pointer and
\* produces the pool state that Malloc(pool, n) returns and produces from the
\* same state.
C15_ReallocNullIsMalloc ==
    \A size \in Sizes, oob \in OobCells :
        LET res == EmbAllocRealloc(ThePool, NULL, size, oob)
            m == EmbAllocMalloc(ThePool, size, oob)
        IN  /\ res.ret = m.ret
            /\ res.P = m.P

\* A pool with a live run in which Realloc(pool, null, 48) returns a new run
\* of data_size 48.
C15_Witness ==
    LET res == EmbAllocRealloc(ThePool, NULL, 48, PoisonCell)
    IN  /\ live # {}
        /\ res.ret # NULL
        /\ \A r \in live : r.ptr # res.ret
        /\ ReadCell(res.P.mem, BlockFromPtr(res.ret) + A, PoisonCell) = WordsCell(res.k, 48)

\* C16: shrinking Realloc: for a live run p and 0 < n < data_size,
\* Realloc(pool, p, n) returns p, sets data_size = n and leaves run_count, the
\* class's occupied_blocks and both free cursors unchanged.
C16_ReallocShrinks ==
    \A r \in live, size \in Sizes, oob \in OobCells :
        LET res == EmbAllocRealloc(ThePool, r.ptr, size, oob)
        IN  (IsLiveRun(r) /\ size < StoredSize(r)) =>
               /\ res.ret = r.ptr
               /\ res.P.mem[CellOf(BlockFromPtr(r.ptr)) + 1] = WordsCell(r.k, size)
               /\ res.P.cat = categories

\* A live run of three blocks holding 128 bytes on which Realloc(pool, p, 32)
\* returns p with data_size 32 and run_count still 3.
C16_Witness ==
    \E r \in live :
        LET res == EmbAllocRealloc(ThePool, r.ptr, 32, PoisonCell)
        IN  /\ IsLiveRun(r) /\ r.k = 3 /\ StoredSize(r) = 128
            /\ res.ret = r.ptr
            /\ res.P.mem[CellOf(BlockFromPtr(r.ptr)) + 1] = WordsCell(3, 32)
            /\ res.P.cat[r.c].occupied_blocks = 3

\* C17: growing Realloc within the capacity: for a live run p of k blocks with
\* capacity B and data_size < n <= B (n = B included), Realloc(pool, p, n)
\* returns p, sets data_size = n, keeps run_count = k and occupied_blocks, and
\* the run still has BLK_HEAD at its first block and BLK_TAIL at the end of
\* its k-th block.
C17_ReallocGrowsInCapacity ==
    \A r \in live, size \in Sizes, oob \in OobCells :
        LET res == EmbAllocRealloc(ThePool, r.ptr, size, oob)
            block == BlockFromPtr(r.ptr)
            B == Capacity(r.k, categories[r.c].block_data_size)
        IN  (IsLiveRun(r) /\ StoredSize(r) < size /\ size <= B) =>
               /\ res.ret = r.ptr
               /\ res.P.mem[CellOf(block) + 1] = WordsCell(r.k, size)
               /\ res.P.cat[r.c].occupied_blocks = categories[r.c].occupied_blocks
               /\ res.P.mem[CellOf(block)] = kEmbAllocBlockStart
               /\ res.P.mem[CellOf(EndPaddingFromBlock(block, B))] = kEmbAllocBlockEnd

\* ------------------------------------------- claims about the block states
\* The cell holds a sentinel or a pair of counters.
IsControlCell(cell) == cell.t \in {"H", "T", "E", "C"}

\* The inner blocks of run r carry neither sentinels nor counters: the tail of
\* every block but the last and the head and the counters of every block but
\* the first hold poison or payload bytes.
InnerBlocksMerged(m, r) ==
    LET d == categories[r.c].block_data_size
    IN  \A i \in 1 .. r.k - 1 :
           LET inner == BlockFromPtr(r.ptr) + i * Stride(r.c)
           IN  /\ ~IsControlCell(m[CellOf(inner) - 1])
               /\ ~IsControlCell(m[CellOf(inner)])
               /\ ~IsControlCell(m[CellOf(inner) + 1])

\* The bytes of run r after its data_size bytes are poison.
UnusedTailPoisoned(m, r) ==
    LET d == categories[r.c].block_data_size
    IN  \A i \in CellOf(r.ptr + MemoryUseCount(m, BlockFromPtr(r.ptr), PoisonCell)) ..
                 CellOf(r.ptr + Capacity(r.k, d)) - 1 :
           m[i] = PoisonCell

\* C18: invariant I3 at the exit of every public call: every live run of k
\* blocks has run_count = k >= 1 and 1 <= data_size <= k*d + (k-1)*3A stored at
\* its first block, BLK_HEAD at the first block, BLK_TAIL at the end of the
\* k-th block, inner blocks without sentinels and counters, and poison in the
\* bytes after data_size.
C18_LiveRunsWellFormed ==
    \A r \in live :
        /\ r.k >= 1
        /\ IsLiveRun(r)
        /\ InnerBlocksMerged(mem, r)
        /\ UnusedTailPoisoned(mem, r)

\* The blocks of the pool that belong to no run the client holds.
FreeBlocks(c) ==
    { b \in ClassBlocks(categories, c) : \A r \in live : b \notin RunBlocks(r) }

\* C19: invariant I2 at the exit of every public call, the client writing
\* only inside its payloads: every free block has BLK_HEAD and BLK_TAIL in
\* place, run_count = data_size = UNSET and a payload of POISON bytes only.
C19_FreeBlocksPristine ==
    \A c \in CategoryIdx :
        \A b \in FreeBlocks(c) : InFreeState(mem, b, categories[c].block_data_size)

\* The cells of the block at b of payload size d: sentinels, counters, payload.
BlockCells(m, b, d) ==
    [i \in 0 .. CellOf(EMB_ALLOC_BLOCK_TOTAL_ALIGN_SIZE(d)) - 1 |-> m[CellOf(b) + i]]

\* Between the memory before and after a call, every block that was neither
\* free nor one of the blocks in own is unchanged.
FrameHolds(after, own) ==
    \A c \in CategoryIdx :
        \A b \in ClassBlocks(categories, c) \ (FreeBlocks(c) \cup own) :
            BlockCells(after, b, categories[c].block_data_size) =
            BlockCells(mem, b, categories[c].block_data_size)

\* C20: frame of the other allocations: a Malloc, Free(p) or Realloc(p, n)
\* call changes no block other than those of p's run and those that were free
\* before the call, so the run_count, data_size and sentinels of every other
\* live run stay as they were.
C20_OtherRunsUntouched ==
    /\ \A size \in Sizes, oob \in OobCells :
          FrameHolds(EmbAllocMalloc(ThePool, size, oob).P.mem, {})
    /\ \A r \in live, oob \in OobCells :
          CountersAreCounts(mem, r.ptr, oob) =>
             FrameHolds(EmbAllocFree(ThePool, r.ptr, oob).mem, RunBlocks(r))
    /\ \A r \in live, size \in ReallocSizes, oob \in OobCells :
          CountersAreCounts(mem, r.ptr, oob) =>
             FrameHolds(EmbAllocRealloc(ThePool, r.ptr, size, oob).P.mem, RunBlocks(r))

\* ------------------------------------------- claims about the error codes
\* The addresses inside the block area a client can form: every multiple of
\* EMB_ALLOC_ALIGN_AMOUNT from the first payload to the end of the area.
PoolPointers == { i * A : i \in 2 .. CellOf(BlockAreaSize(settings)) }

\* C21: EmbAllocFree with a non-null pointer whose preceding block header is
\* not the block start marker (a pointer into the payload or into an inner
\* block of a live run) records PointerParamError and leaves every block, the
\* occupied_blocks counter and both cursors of every class unchanged.
C21_FreeOfNonBlockPointer ==
    \A ptr \in PoolPointers, oob \in OobCells :
        LET P1 == EmbAllocFree(ThePool, ptr, oob)
        IN  ~EMB_ALLOC_PTR_IS_BLOCK(mem, ptr, oob) =>
               /\ P1.err = "PointerParamError"
               /\ P1.mem = mem
               /\ P1.cat = categories

\* A live run of two blocks, and the pointer to the payload of its second
\* block refused by EmbAllocFree.
C21_Witness ==
    \E r \in live :
        /\ r.k >= 2
        /\ IsLiveRun(r)
        /\ ~EMB_ALLOC_PTR_IS_BLOCK(mem, r.ptr + Stride(r.c), PoisonCell)
        /\ EmbAllocFree(ThePool, r.ptr + Stride(r.c), PoisonCell).err = "PointerParamError"

\* C22: double free: EmbAllocFree of a pointer whose run was freed by the call
\* before reports Overflow as the last error and leaves occupied_blocks, both
\* cursors and every block unchanged.
C22_DoubleFreeReportsOverflow ==
    \A r \in live, oob \in OobCells :
        LET P1 == EmbAllocFree(ThePool, r.ptr, oob)
            P2 == EmbAllocFree(P1, r.ptr, oob)
        IN  (IsLiveRun(r) /\ IsFreeBlock(P1.mem, BlockFromPtr(r.ptr))) =>
               /\ P2.err = "Overflow"
               /\ P2.mem = P1.mem
               /\ P2.cat = P1.cat

\* The addresses of the cells after the usable end of run r whose overwriting
\* EmbAllocFree can detect: the end marker of the run and, with
\* full_overflow_checks, the unused rest of the payload.
OverrunAddresses(r) ==
    LET B == Capacity(r.k, categories[r.c].block_data_size)
    IN  {EndPaddingFromBlock(BlockFromPtr(r.ptr), B)} \cup
        (IF settings.full_overflow_checks
         THEN { i * A : i \in CellOf(r.ptr + StoredSize(r)) .. CellOf(r.ptr + B) - 1 }
         ELSE {})

\* C30: overflow detection and self-healing on Free: when the user has
\* overwritten the end marker of a live run (or, with full_overflow_checks, a
\* byte of its unused tail), EmbAllocFree records Overflow, still frees the
\* run and leaves each of its blocks FREE with valid sentinels, so that a later
\* EmbAllocMalloc that returns one of them reports no error.
C30_FreeHealsOverflow ==
    \A r \in live, oob \in OobCells :
        \A a \in OverrunAddresses(r) :
            LET d == categories[r.c].block_data_size
                P0 == Pool(WriteCell(mem, a, DataCell), categories, last_error)
                P1 == EmbAllocFree(P0, r.ptr, oob)
            IN  IsLiveRun(r) =>
                   /\ P1.err = "Overflow"
                   /\ P1.cat[r.c].occupied_blocks = categories[r.c].occupied_blocks - r.k
                   /\ \A b \in RunBlocks(r) : InFreeState(P1.mem, b, d)
                   /\ \A size \in Sizes :
                         LET res == EmbAllocMalloc(P1, size, oob)
                         IN  (res.ret # NULL /\ BlockFromPtr(res.ret) \in RunBlocks(r)) =>
                                res.P.err = "NoErr"

\* The pool the next call works on if no error had been recorded before.
TheClearedPool == Pool(mem, categories, "NoErr")

\* C23: every Malloc, Free and Realloc call on a valid pool clears the last
\* error at entry: the error code read after the call is the one the call
\* itself records, NoErr if it detects no error, whatever error an earlier
\* call or EmbAllocCreate (InconsistentSettings) had recorded.
C23_LastErrorClearedAtEntry ==
    /\ \A size \in Sizes \cup {0}, oob \in OobCells :
          EmbAllocGetLastErrorCode(EmbAllocMalloc(ThePool, size, oob).P) =
          EmbAllocGetLastErrorCode(EmbAllocMalloc(TheClearedPool, size, oob).P)
    /\ \A ptr \in {x.ptr : x \in live} \cup {NULL}, oob \in OobCells :
          (ptr # NULL => CountersAreCounts(mem, ptr, oob)) =>
             /\ EmbAllocGetLastErrorCode(EmbAllocFree(ThePool, ptr, oob)) =
                EmbAllocGetLastErrorCode(EmbAllocFree(TheClearedPool, ptr, oob))
             /\ \A size \in ReallocSizes :
                   EmbAllocGetLastErrorCode(EmbAllocRealloc(ThePool, ptr, size, oob).P) =
                   EmbAllocGetLastErrorCode(EmbAllocRealloc(TheClearedPool, ptr, size, oob).P)

\* The pool as EmbAllocCreate returned it for inconsistent settings, the
\* InconsistentSettings error still recorded, and a Malloc, a Free of NULL and
\* a Realloc that each leave NoErr.
C23_Witness ==
    /\ last_error = "InconsistentSettings"
    /\ live = {}
    /\ EmbAllocGetLastErrorCode(EmbAllocMalloc(ThePool, 32, PoisonCell).P) = "NoErr"
    /\ EmbAllocGetLastErrorCode(EmbAllocFree(ThePool, NULL, PoisonCell)) = "NoErr"
    /\ EmbAllocGetLastErrorCode(EmbAllocRealloc(ThePool, NULL, 32, PoisonCell).P) = "NoErr"

\* ------------------------------------------- claims about the pool handle
\* C24: invalid handle: when the first EMB_ALLOC_ALIGN_AMOUNT bytes at the
\* handle are not the pool start marker, EmbAllocMalloc and EmbAllocRealloc
\* return NULL, EmbAllocFree has no effect, EmbAllocDestroy and
\* EmbAllocGetSettings return false, EmbAllocGetLastErrorCode returns
\* InvalidMempool, and none of them changes anything behind the handle.
C24_InvalidHandleRefused ==
    (frame.handle = "pool" /\ ~EMB_ALLOC_PTR_IS_MEMPOOL(mempool_start)) =>
       /\ \A size \in LifeSizes \cup {0}, oob \in OobCells :
             MallocOnHandle(mempool_start, ThePool, size, oob) = NullResult(ThePool)
       /\ \A ptr \in {x.ptr : x \in live} \cup {NULL}, oob \in OobCells :
             /\ FreeOnHandle(mempool_start, ThePool, ptr, oob) = ThePool
             /\ \A size \in LifeSizes \cup {0} :
                   ReallocOnHandle(mempool_start, ThePool, ptr, size, oob) =
                   NullResult(ThePool)
       /\ EmbAllocDestroy(mempool_start, settings, ThePool) =
             [ok |-> FALSE, start |-> mempool_start, settings |-> settings, P |-> ThePool]
       /\ \A has_out \in BOOLEAN :
             EmbAllocGetSettings(mempool_start, ThePool, settings, frame.out, has_out) =
             [ok |-> FALSE, out |-> frame.out, P |-> ThePool]
       /\ GetLastErrorCodeOnHandle(mempool_start, ThePool) = "InvalidMempool"

\* A pool with a live run and a recorded error whose start marker was
\* overwritten, and an EmbAllocFree of the run that is refused.
C24_Witness ==
    /\ frame.handle = "pool"
    /\ ~EMB_ALLOC_PTR_IS_MEMPOOL(mempool_start)
    /\ last_error # "NoErr"
    /\ \E r \in live : FreeOnHandle(mempool_start, ThePool, r.ptr, PoisonCell) = ThePool

\* ------------------------------------------------ claims about creation
\* The last category before i that has blocks, or -1.
PreviousCategory(cat, i) ==
    IF \E j \in 0 .. i - 1 : cat[j].total_blocks > 0
    THEN CHOOSE j \in 0 .. i - 1 :
            /\ cat[j].total_blocks > 0
            /\ \A l \in j + 1 .. i - 1 : cat[l].total_blocks = 0
    ELSE -1

\* Category i of cat is laid out as C28 says.
InitialCategory(cat, m, n, i) ==
    LET d == 32 * 2 ^ i
        j == PreviousCategory(cat, i)
    IN  /\ cat[i].block_data_size = d
        /\ cat[i].total_blocks = n
        /\ cat[i].occupied_blocks = 0
        /\ IF n > 0
           THEN /\ cat[i].start_address =
                      (IF j < 0 THEN 0
                       ELSE cat[j].last_address + cat[j].block_data_size + 3 * A)
                /\ cat[i].first_free_address = cat[i].start_address
                /\ cat[i].last_address = cat[i].start_address + (n - 1) * (d + 3 * A)
                /\ cat[i].last_free_address = cat[i].last_address
                /\ \A b \in ClassBlocks(cat, i) : InFreeState(m, b, d)
           ELSE /\ cat[i].start_address = NULL
                /\ cat[i].first_free_address = NULL
                /\ cat[i].last_address = NULL
                /\ cat[i].last_free_address = NULL

\* C28: in the pool EmbAllocCreate returns, every class with n > 0 blocks has
\* occupied_blocks = 0, first_free_address = start_address and
\* last_free_address = last_address = start_address + (n-1)*(d+3A), every
\* class without blocks has the four addresses NULL, every block is FREE, and
\* the classes follow each other in ascending data size, each non-empty class
\* starting where the last block of the class before it ends.
C28_CreateInitialState ==
    frame.handle = "null" =>
       \A i \in CategoryIdx :
           InitialCategory(EmbAllocCreate(frame.s).cat, EmbAllocCreate(frame.s).mem,
                           frame.s.num_blocks[i], i)

\* The pool as EmbAllocCreate returned it, with blocks in both classes.
C28_Witness ==
    /\ frame.handle = "pool"
    /\ live = {}
    /\ categories[0].total_blocks > 0
    /\ categories[1].total_blocks > 0
    /\ categories[1].start_address = categories[0].last_address + 32 + 3 * A
    /\ \A i \in CategoryIdx : InitialCategory(categories, mem, frame.s.num_blocks[i], i)

\* The sum of the payload sizes of the blocks the settings s ask for.
PayloadSum(s) ==
    s.num_blocks[0] * 32 + s.num_blocks[1] * 64 + s.num_blocks[2] * 128 +
    s.num_blocks[3] * 256 + s.num_blocks[4] * 512 + s.num_blocks[5] * 1024 +
    s.num_blocks[6] * 2048 + s.num_blocks[7] * 4096

\* C29: settings sanitisation: EmbAllocCreate stores total_size = the sum of
\* n_i * d_i whatever total_size the caller gave; the pool's last error is
\* InconsistentSettings when the caller's value differs and NoErr otherwise;
\* EmbAllocGetSettings returns the caller's settings with only total_size
\* replaced by that sum.
C29_SettingsSanitised ==
    /\ frame.handle = "null" =>
          LET c == EmbAllocCreate(frame.s)
          IN  /\ c.settings.total_size = PayloadSum(frame.s)
              /\ c.err = IF frame.s.total_size = PayloadSum(frame.s)
                         THEN "NoErr" ELSE "InconsistentSettings"
              /\ EmbAllocGetSettings(kEmbAllocMempoolStart, Pool(c.mem, c.cat, c.err),
                                     c.settings, frame.out, TRUE) =
                    [ok |-> TRUE,
                     out |-> [frame.s EXCEPT !.total_size = PayloadSum(frame.s)],
                     P |-> Pool(c.mem, c.cat, c.err)]
    /\ frame.out # ZeroSettings =>
          frame.out = [frame.s EXCEPT !.total_size = PayloadSum(frame.s)]

\* A pool created from settings that ask for Life64 blocks of 64 bytes alone
\* with total_size = 0: the error of EmbAllocCreate is still recorded and
\* EmbAllocGetSettings has returned the sum.
C29_Witness ==
    /\ frame.handle = "pool"
    /\ frame.s.num_blocks[0] = 0
    /\ frame.s.num_blocks[1] = Life64
    /\ frame.s.total_size = 0
    /\ last_error = "InconsistentSettings"
    /\ frame.out = settings
    /\ frame.out.total_size = 64 * Life64

\* ------------------------------------------------- claims about threads
\* C25: with threadsafe set and the mutex working, a thread writes the class
\* cursors, the occupancy counters, the block metadata or the last-error
\* record only while it holds the pool mutex: no step of Malloc, Free or
\* Realloc, the clearing of the last error at entry included, writes without
\* the lock.
C25_WritesOnlyUnderLock ==
    [][\A t \in Threads :
          (~mutex.failed /\ pc[t] \in {"clear", "critical"} /\
           pc'[t] \in {"lock", "unlock"}) => mutex.owner = t]_vars

\* C26: when EmbAllocLockMutex fails inside Malloc, Free or Realloc, the call
\* aborts with ThreadSyncError, returns NULL and changes no block and no
\* class.
C26_LockFailureAborts ==
    [][\A t \in Threads :
          (pc[t] = "critical" /\ ~frame[t].locked /\ pc'[t] = "unlock") =>
             /\ mem' = mem
             /\ categories' = categories
             /\ last_error' = "ThreadSyncError"
             /\ frame'[t].ret.ptr = NULL]_vars

\* C27: EmbAllocDestroy on a threadsafe pool acquires the mutex Malloc, Free
\* and Realloc use: it never zero-fills and releases the region while another
\* thread is between lock and unlock inside one of them.
C27_DestroyExcludesCalls ==
    [][\A t \in Threads :
          (~mutex.failed /\ pc[t] = "destroy_zero" /\ pc'[t] = "gone") =>
             \A u \in Threads \ {t} :
                 ~(pc[u] \in {"critical", "unlock"} /\ frame[u].locked)]_vars

\* The largest category the pool has blocks in.
LargestClass ==
    CHOOSE c \in CategoryIdx :
        /\ categories[c].total_blocks > 0
        /\ \A j \in CategoryIdx : categories[j].total_blocks > 0 => j <= c

\* The request of data_size + 1 bytes of the largest class: the code rounds it
\* up to the next multiple of EMB_ALLOC_ALIGN_AMOUNT wherever it counts blocks.
OverLargest == CategoryDataSize(LargestClass) + A

\* C31 as stated: a request of data_size + 1 bytes of the largest class that
\* has blocks is served by a run of several blocks inside that class or Malloc
\* fails; it is never served from a smaller class.
C31_OnlyInLargestClass ==
    \A oob \in OobCells :
        LET r == EmbAllocMalloc(ThePool, OverLargest, oob)
        IN  r.ret = NULL \/ (r.c = LargestClass /\ r.k >= 2)

\* C31 as amended: a request of data_size + 1 bytes of the largest class that
\* has blocks is never served by a single block: it is served by a run of
\* ceil((n+3A)/(d+3A)) >= 2 blocks of that class, or of a smaller class when
\* the scan of the larger ones found no run, or Malloc fails with NoMemory or
\* InconsistentBlocks.
C31_MultiBlockOrFails ==
    \A oob \in OobCells :
        LET r == EmbAllocMalloc(ThePool, OverLargest, oob)
        IN  IF r.ret = NULL
            THEN r.P.err \in {"NoMemory", "InconsistentBlocks"}
            ELSE /\ r.c <= LargestClass
                 /\ r.k >= 2
                 /\ r.k = NeededBlocks(OverLargest, CategoryDataSize(r.c))
                 /\ \A j \in (r.c + 1) .. LargestClass :
                       ~EmbAllocCanAllocInMultipleBlocksInternal(
                            ClearMempoolErrorInternal(ThePool), j, OverLargest, oob).ok

\* The request above the only 64-byte block is served by two 32-byte blocks.
C31_Witness ==
    /\ LargestClass = 1
    /\ EmbAllocMalloc(ThePool, OverLargest, PoisonCell).ret # NULL
    /\ EmbAllocMalloc(ThePool, OverLargest, PoisonCell).c = 0
    /\ EmbAllocMalloc(ThePool, OverLargest, PoisonCell).k = 2

\* The blocks of category c between its two cursors that start k adjacent free
\* blocks lying between the cursors.
FreeRunStarts(m, cat, c, k) ==
    { b \in ClassBlocks(cat, c) :
        /\ cat[c].first_free_address <= b
        /\ \A i \in 0 .. k - 1 :
              /\ b + i * Stride(c) <= cat[c].last_free_address
              /\ IsFreeBlock(m, b + i * Stride(c)) }

\* The request sizes above the data size of category 0 the scan is asked for:
\* runs of two and of three 32-byte blocks.
RunSizes == {48, 128}

\* C32: the feasibility scan of a class with free capacity, for a run of k
\* blocks: it reports success, with the lowest-addressed start of k adjacent
\* free blocks between first_free_address and last_free_address, whenever
\* such blocks exist there, and failure only when they do not.
C32_ScanFindsLowestRun ==
    \A size \in RunSizes, oob \in OobCells :
        LET k == NeededBlocks(size, categories[0].block_data_size)
            starts == FreeRunStarts(mem, categories, 0, k)
            can == EmbAllocCanAllocInMultipleBlocksInternal(ThePool, 0, size, oob)
        IN  (/\ categories[0].occupied_blocks < categories[0].total_blocks
             /\ categories[0].first_free_address # NULL
             /\ categories[0].last_free_address # NULL) =>
               IF starts = {}
               THEN ~can.ok
               ELSE /\ can.ok
                    /\ can.blocks_count = k
                    /\ can.block \in starts
                    /\ \A b \in starts : can.block <= b

\* C33: when Malloc(pool, n) allocates in a class whose data size d is
\* smaller than n, the run has exactly k = ceil((n+3A)/(d+3A)) blocks, all of
\* them blocks of that class that were free before the call and adjacent; the
\* first block records run_count = k and data_size = n, and occupied_blocks of
\* the class grows by k.
C33_MultiBlockRun ==
    \A size \in Sizes \cup {OverLargest}, oob \in OobCells :
        LET r == EmbAllocMalloc(ThePool, size, oob)
            block == BlockFromPtr(r.ret)
            k == NeededBlocks(size, CategoryDataSize(r.c))
        IN  (r.ret # NULL /\ CategoryDataSize(r.c) < size) =>
               /\ r.k = k
               /\ \A i \in 0 .. k - 1 :
                     /\ block + i * Stride(r.c) \in ClassBlocks(categories, r.c)
                     /\ IsFreeBlock(mem, block + i * Stride(r.c))
               /\ UseCount(r.P.mem, block, oob) = k
               /\ MemoryUseCount(r.P.mem, block, oob) = size
               /\ r.P.cat[r.c].occupied_blocks = categories[r.c].occupied_blocks + k

\* With one 32-byte block in use, a request of 48 bytes is served by the two
\* free 32-byte blocks after it.
C33_Witness ==
    /\ live # {}
    /\ EmbAllocMalloc(ThePool, 48, PoisonCell).ret # NULL
    /\ EmbAllocMalloc(ThePool, 48, PoisonCell).c = 0
    /\ EmbAllocMalloc(ThePool, 48, PoisonCell).k = 2
    /\ categories[0].occupied_blocks = 1
    /\ EmbAllocMalloc(ThePool, 48, PoisonCell).P.cat[0].occupied_blocks = 3

\* Category c has a free block.
HasFreeBlock(m, cat, c) == \E b \in ClassBlocks(cat, c) : IsFreeBlock(m, b)

\* The free bytes the free blocks of category c hold once blocks of them are
\* taken (856-863).
Residual(cat, c, blocks) ==
    cat[c].block_data_size * (cat[c].total_blocks - cat[c].occupied_blocks - blocks)

\* C34: the residual decision.  When the best-fit class of a request of n
\* bytes is full, L is the smallest class with data_size >= n that has a free
\* block and S is the largest class with data_size < n that holds a run of k
\* adjacent free blocks, Malloc allocates one block in L if
\* d_L * (total_L - occupied_L - 1) > d_S * (total_S - occupied_S - k), and the
\* run of k blocks in S otherwise (equal residuals included).
C34_ResidualDecision ==
    \A n \in ScanSizes, oob \in OobCells :
        LET Ls == { c \in CategoryIdx : c > BestFit(n) /\ HasFreeBlock(mem, categories, c) }
            Ss == { c \in CategoryIdx : CategoryDataSize(c) < n /\
                                        HasFreeRun(mem, categories, c, n) }
            L == CHOOSE c \in Ls : \A j \in Ls : c <= j
            S == CHOOSE c \in Ss : \A j \in Ss : j <= c
            k == NeededBlocks(n, CategoryDataSize(S))
            r == EmbAllocMalloc(ThePool, n, oob)
        IN  (~HasFreeBlock(mem, categories, BestFit(n)) /\ Ls # {} /\ Ss # {}) =>
               /\ r.ret # NULL
               /\ IF Residual(categories, L, 1) > Residual(categories, S, k)
                  THEN r.c = L /\ r.k = 1
                  ELSE r.c = S /\ r.k = k

\* The state the descending loop of EmbAllocMallocInternal ends in for a
\* request of size bytes on the pool of the current state.
LoopEnd(size, oob) ==
    MallocScanCategories(TheClearedPool, size, EMB_ALLOC_NUM_BLOCK_CATEGORIES - 1,
                         EMB_ALLOC_NUM_BLOCK_CATEGORIES, oob)

C36_CursorDesignatesFreeBlock ==
    \A c \in CategoryIdx :
        categories[c].first_free_address # NULL =>
            /\ categories[c].first_free_address \in ClassBlocks(categories, c)
            /\ IsFreeBlock(mem, categories[c].first_free_address)

\* C37: saturation.  A Malloc, or a Realloc that extends a run in place, that
\* brings a class to occupied_blocks = total_blocks sets first_free_address
\* and last_free_address of the class to null; the Free of a run of a
\* saturated class makes both cursors non-null again.
C37_SaturationCursors ==
    LET BroughtToSaturation(before, after, c) ==
            /\ before[c].occupied_blocks < before[c].total_blocks
            /\ after[c].occupied_blocks = after[c].total_blocks
        CursorsNull(category) ==
            category.first_free_address = NULL /\ category.last_free_address = NULL
    IN
    /\ \A size \in Sizes, oob \in OobCells, c \in CategoryIdx :
          LET r == EmbAllocMalloc(ThePool, size, oob)
          IN  BroughtToSaturation(categories, r.P.cat, c) => CursorsNull(r.P.cat[c])
    /\ \A run \in live, size \in Sizes, oob \in OobCells, c \in CategoryIdx :
          LET r == EmbAllocRealloc(ThePool, run.ptr, size, oob)
          IN  (/\ CountersAreCounts(mem, run.ptr, oob)
               /\ r.ret = run.ptr
               /\ BroughtToSaturation(categories, r.P.cat, c)) => CursorsNull(r.P.cat[c])
    /\ \A run \in live, oob \in OobCells :
          LET P1 == EmbAllocFree(ThePool, run.ptr, oob)
          IN  (/\ CountersAreCounts(mem, run.ptr, oob)
               /\ categories[run.c].occupied_blocks = categories[run.c].total_blocks
               /\ CursorsNull(categories[run.c])) =>
                 /\ P1.cat[run.c].first_free_address # NULL
                 /\ P1.cat[run.c].last_free_address # NULL

\* C38: a client that writes only inside its payloads never drives the
\* allocator into its safety-net branches: after every call, in every class
\* with occupied_blocks < total_blocks neither cursor is null (the forward scan
\* after an allocation that does not fill the class found a free block), and
\* the last error is never InconsistentBlocks.
C38_SafetyNetsUnreached ==
    /\ last_error # "InconsistentBlocks"
    /\ \A c \in CategoryIdx :
          categories[c].occupied_blocks < categories[c].total_blocks =>
              /\ categories[c].first_free_address # NULL
              /\ categories[c].last_free_address # NULL

====
